---- MODULE Spec2Model ----
(***************************************************************************)
(* fastmath: an arithmetic drill whose problem selection and difficulty    *)
(* adapt to the user's history (src/fastmath.py).                          *)
(*                                                                         *)
(* Units.  time_taken is a whole number of seconds, timestamps and `now'   *)
(* are whole hours, typing_time_estimate is in tenths of a second, the     *)
(* cooldown after a wrong key is counted in half seconds.  The             *)
(* code's float comparisons are modelled exactly on these rationals.       *)
(***************************************************************************)
EXTENDS Integers, Sequences, FiniteSets, TLC

VARIABLES
    config,            \* the global config: operations, difficulties, allow_negative
    config_file,       \* config.json: [exists, valid, data]; valid: the text parses as JSON
    performance_data,  \* the global list of logged attempts, oldest first
    now,               \* datetime.now(), in hours
    operation,         \* main_game: the operation drawn for the round
    problem,           \* main_game: the problem of the round (display string)
    correct_answer,    \* main_game: the answer string of the round, as an integer
    call,              \* the function applied last, with its arguments and result
    steps,             \* number of operations applied so far
    user_answer,       \* main_game: the characters typed so far, all of them
                       \* correct_answer's, as their number
    performance_file,  \* performance.json: [exists, valid, data]
    cooldown,          \* main_game: time.time() - start_cooldown during the cooldown
                       \* after a wrong key, in half seconds; 0 outside it
    pc                 \* where the program is: "start" (before main), "menu",
                       \* "round" (top of the game loop), "input" (a problem is on
                       \* screen), "cooldown" (after a wrong key), "raised" (an
                       \* exception left the program)

vars == <<config, config_file, performance_data, now, operation, problem,
          correct_answer, call, steps, user_answer, performance_file, cooldown,
          pc>>

(***************************************************************************)
(* Bounds of the model.                                                    *)
(***************************************************************************)
MaxLoaded == 20      \* records of the history loaded at start-up (adjuster runs)
MaxSteps == 2        \* operations applied after start-up (adjuster runs)
MaxDifficulty == 4   \* cap on a difficulty raised by hand, largest start-up difficulty
MaxOperand == 12     \* largest operand handed to is_trivial_problem
MaxWeighed == 2      \* records of the history handed to get_problem_weights
MaxErrors == 3       \* incorrect records of the history handed to check_error_patterns
MaxFill == 27        \* correct records before them
MaxDraw == 6         \* values followed at each end of a random.randint range
MaxExact == 4        \* correct, and incorrect, records of the scored problem
MaxSimilar == 1      \* correct, and incorrect, records of its swapped variant
MaxRounds == 1       \* rounds started in one run of the program

(***************************************************************************)
(* Operations and their symbols.                                           *)
(***************************************************************************)
Ops == {"addition", "subtraction", "multiplication", "division"}

Symbols == {"+", "-", "*", "/"}

operation_map(symbol) ==
    CASE symbol = "+" -> "addition"
      [] symbol = "-" -> "subtraction"
      [] symbol = "*" -> "multiplication"
      [] symbol = "/" -> "division"

symbol_of(op) ==
    CASE op = "addition" -> "+"
      [] op = "subtraction" -> "-"
      [] op = "multiplication" -> "*"
      [] op = "division" -> "/"

default_config ==
    [operations |-> [op \in Ops |-> TRUE],
     difficulties |-> [op \in Ops |-> 1],
     allow_negative |-> TRUE]

NoOperation == "none"

NoProblem == [num1 |-> 0, operation |-> "none", num2 |-> 0]

NoCall == [fn |-> "none"]

(***************************************************************************)
(* Sequence helpers.                                                       *)
(***************************************************************************)
Repeat(x, n) == [i \in 1..n |-> x]

\* s[-k:]
LastN(s, k) == IF Len(s) <= k THEN s ELSE SubSeq(s, Len(s) - k + 1, Len(s))

RECURSIVE SumSeq(_)
SumSeq(s) == IF s = <<>> THEN 0 ELSE Head(s) + SumSeq(Tail(s))

Max(a, b) == IF a >= b THEN a ELSE b

Min(a, b) == IF a <= b THEN a ELSE b

(***************************************************************************)
(* str(eval(problem)) and estimate_typing_time.                            *)
(***************************************************************************)
RECURSIVE DecLen(_)
\* len(str(n)) for an integer n
DecLen(n) ==
    IF n < 0 THEN 1 + DecLen(-n)
    ELSE IF n < 10 THEN 1 ELSE 1 + DecLen(n \div 10)

\* eval of "num1 op num2" for + - *: an int
eval_int(num1, symbol, num2) ==
    CASE symbol = "+" -> num1 + num2
      [] symbol = "-" -> num1 - num2
      [] symbol = "*" -> num1 * num2

\* len(str(eval(problem))).  "/" is Python's true division: the result is a
\* float, printed with a trailing ".0" when the quotient is whole (the only
\* division problems the generators build, see generate_problem).
eval_text_len(num1, symbol, num2) ==
    IF symbol = "/"
    THEN DecLen(num1 \div num2) + 2
    ELSE DecLen(eval_int(num1, symbol, num2))

\* base_time + len(answer) * avg_time_per_char, in tenths of a second
estimate_typing_time(answer_len) == 5 + answer_len * 2

(***************************************************************************)
(* save_config                                                             *)
(***************************************************************************)
save_config(c) == [exists |-> TRUE, valid |-> TRUE, data |-> c]

\* load_config: the outcome of reading config.json
load_config(file) ==
    IF file.exists
    THEN [raised |-> ~file.valid, value |-> file.data]
    ELSE [raised |-> FALSE, value |-> default_config]

(***************************************************************************)
(* save_performance_data, load_performance_data                            *)
(***************************************************************************)
\* only the json.dump([], f) of a missing file happens
save_performance_data_empty(data) == [exists |-> TRUE, valid |-> TRUE, data |-> <<>>]

save_performance_data(data) == [exists |-> TRUE, valid |-> TRUE, data |-> data]

\* load_performance_data: the outcome of reading performance.json
load_performance_data(file) ==
    IF file.exists
    THEN [raised |-> ~file.valid, value |-> file.data]
    ELSE [raised |-> FALSE, value |-> <<>>]

(***************************************************************************)
(* log_attempt: the rolling statistics.                                    *)
(***************************************************************************)
\* [x for x in performance_data if x['problem'].split()[1] == symbol][-20:]
recent_attempts(data, symbol) ==
    LastN(SelectSeq(data, LAMBDA x : x.operation = symbol), 20)

\* sum(1 for x in recent_attempts if x['correct'])
recent_correct(recent) == Cardinality({i \in 1..Len(recent) : recent[i].correct})

recent_times(recent) == [i \in 1..Len(recent) |-> recent[i].time_taken]

\* n * (x - mean(times)) for every x of times, n = len(times)
Deviations(times) ==
    [i \in 1..Len(times) |-> Len(times) * times[i] - SumSeq(times)]

\* n^2 * (sum of squared deviations from the mean); stdev(times)^2 is this
\* divided by n^2 * (n - 1)
SquaredDeviations(times) ==
    SumSeq([i \in 1..Len(times) |-> Deviations(times)[i] * Deviations(times)[i]])

\* std_dev_time > 0
stdev_positive(times) == SquaredDeviations(times) > 0

\* z_score <= high_performance_z, with
\*   z_score = (time_taken - mean) / stdev if len > 1 and stdev > 0 else 0
\* (t - mean)/stdev <= -1/2  <=>  mean - t >= 0 and 4 (mean - t)^2 >= stdev^2
z_score_high_performance(times, time_taken) ==
    /\ Len(times) > 1
    /\ stdev_positive(times)
    /\ SumSeq(times) - Len(times) * time_taken >= 0
    /\ 4 * (Len(times) - 1)
         * (SumSeq(times) - Len(times) * time_taken)
         * (SumSeq(times) - Len(times) * time_taken)
       >= SquaredDeviations(times)

\* mutant of z_score_low_performance: a zero standard deviation is not
\* turned into a zero z-score
z_score_low_performance_unguarded(times, time_taken) ==
    /\ Len(times) > 1
    /\ Len(times) * time_taken - SumSeq(times) >= 0
    /\ 4 * (Len(times) - 1)
         * (Len(times) * time_taken - SumSeq(times))
         * (Len(times) * time_taken - SumSeq(times))
       >= SquaredDeviations(times)

\* z_score >= low_performance_z
z_score_low_performance(times, time_taken) ==
    /\ Len(times) > 1
    /\ stdev_positive(times)
    /\ Len(times) * time_taken - SumSeq(times) >= 0
    /\ 4 * (Len(times) - 1)
         * (Len(times) * time_taken - SumSeq(times))
         * (Len(times) * time_taken - SumSeq(times))
       >= SquaredDeviations(times)

\* mutant of accuracy_above_high: >= in place of >
accuracy_at_least_high(recent) == 4 * recent_correct(recent) >= 3 * Len(recent)

\* recent_correct / len(recent_attempts) > 0.75
accuracy_above_high(recent) == 4 * recent_correct(recent) > 3 * Len(recent)

\* recent_correct / len(recent_attempts) < 0.6
\* recent_correct / 20 < 0.6
accuracy_below_low_of_twenty(recent) == 5 * recent_correct(recent) < 3 * 20

accuracy_below_low(recent) == 5 * recent_correct(recent) < 3 * Len(recent)

\* mutant of increase_difficulty: two levels at once
increase_difficulty_twice(difficulty) == difficulty + 2

\* config['difficulties'][operation] += 1
increase_difficulty(difficulty) == difficulty + 1

\* mutant of decrease_difficulty: the floor at 1 is dropped
decrease_difficulty_unfloored(difficulty) == difficulty - 1

\* max(1, config['difficulties'][operation] - 1)
decrease_difficulty(difficulty) == Max(1, difficulty - 1)

\* the if / elif of log_attempt: the new difficulty of the attempted operation
adjusted_difficulty(difficulty, recent, time_taken) ==
    IF accuracy_above_high(recent)
       /\ z_score_high_performance(recent_times(recent), time_taken)
    THEN increase_difficulty(difficulty)
    ELSE IF accuracy_below_low(recent)
            \/ z_score_low_performance(recent_times(recent), time_taken)
         THEN decrease_difficulty(difficulty)
         ELSE difficulty

\* the entry log_attempt appends
attempt_entry(p, correct, time_taken, difficulty, timestamp) ==
    [num1 |-> p.num1, operation |-> p.operation, num2 |-> p.num2,
     correct |-> correct, time_taken |-> time_taken,
     typing_time_estimate |->
         estimate_typing_time(eval_text_len(p.num1, p.operation, p.num2)),
     difficulty |-> difficulty, timestamp |-> timestamp]

\* log_attempt without performance_data.append(entry)
log_attempt_unrecorded(p, correct, time_taken, difficulty) ==
    LET data == performance_data
        op == operation_map(p.operation)
        recent == recent_attempts(Append(data, attempt_entry(p, correct, time_taken,
                                                             difficulty, now)),
                                  p.operation)
        new_config ==
            [config EXCEPT !.difficulties[op] =
                adjusted_difficulty(config.difficulties[op], recent, time_taken)]
    IN /\ performance_data' = data
       /\ config' = new_config
       /\ config_file' = save_config(new_config)

\* log_attempt with save_config(config) ahead of the difficulty update
log_attempt_saved_first(p, correct, time_taken, difficulty) ==
    LET data == Append(performance_data,
                       attempt_entry(p, correct, time_taken, difficulty, now))
        op == operation_map(p.operation)
        recent == recent_attempts(data, p.operation)
        new_config ==
            [config EXCEPT !.difficulties[op] =
                adjusted_difficulty(config.difficulties[op], recent, time_taken)]
    IN /\ performance_data' = data
       /\ config' = new_config
       /\ config_file' = save_config(config)

\* log_attempt(problem, correct, time_taken, difficulty)
log_attempt(p, correct, time_taken, difficulty) ==
    LET data == Append(performance_data,
                       attempt_entry(p, correct, time_taken, difficulty, now))
        op == operation_map(p.operation)
        recent == recent_attempts(data, p.operation)
        new_config ==
            [config EXCEPT !.difficulties[op] =
                adjusted_difficulty(config.difficulties[op], recent, time_taken)]
    IN /\ performance_data' = data
       /\ config' = new_config
       /\ config_file' = save_config(new_config)

(***************************************************************************)
(* adjust_difficulties: the left and right keys on operation op.           *)
(***************************************************************************)
adjust_difficulties_left(op) ==
    /\ config.difficulties[op] > 1
    /\ config' = [config EXCEPT !.difficulties[op] = @ - 1]
    /\ config_file' = save_config(config')

adjust_difficulties_right(op) ==
    /\ config.difficulties[op] < MaxDifficulty
    /\ config' = [config EXCEPT !.difficulties[op] = @ + 1]
    /\ config_file' = save_config(config')

(***************************************************************************)
(* SpecAdjust: the difficulty adjuster.  The history loaded at start-up    *)
(* is a run of equal records; attempts are then logged and difficulties    *)
(* changed by hand.                                                        *)
(***************************************************************************)
Times == {1, 3}

AdjustProblems ==
    {[num1 |-> 7, operation |-> "+", num2 |-> 8],
     [num1 |-> 9, operation |-> "-", num2 |-> 4]}

\* the records of the loaded history: attempts at the first problem
AdjustEntries ==
    {attempt_entry([num1 |-> 7, operation |-> "+", num2 |-> 8], c, t, 1, 0) :
        c \in BOOLEAN, t \in Times}

\* start-up without config.json and with a history file holding a run of
\* equal records
InitAdjust ==
    /\ config = default_config
    /\ config_file = [exists |-> FALSE, valid |-> FALSE, data |-> default_config]
    /\ performance_data \in
           {Repeat(e, n) : e \in AdjustEntries, n \in 0..MaxLoaded}
    /\ now = 0
    /\ operation = NoOperation
    /\ problem = NoProblem
    /\ correct_answer = 0
    /\ call = NoCall
    /\ steps = 0
    /\ user_answer = 0
    /\ cooldown = 0
    /\ performance_file = save_performance_data(performance_data)
    /\ pc = "menu"

RecordAttempt ==
    /\ steps < MaxSteps
    /\ \E p \in AdjustProblems, correct \in BOOLEAN, time_taken \in Times,
          difficulty \in {config.difficulties[o] : o \in Ops} :
          /\ log_attempt(p, correct, time_taken, difficulty)
          /\ call' = [fn |-> "log_attempt", operation |-> operation_map(p.operation),
                      correct |-> correct, time_taken |-> time_taken,
                      before |-> config.difficulties[operation_map(p.operation)]]
    /\ steps' = steps + 1
    /\ UNCHANGED <<user_answer, performance_file, cooldown,
                   now, operation, problem, correct_answer, pc>>

KeyLeft ==
    /\ steps < MaxSteps
    /\ \E op \in Ops :
          /\ adjust_difficulties_left(op)
          /\ call' = [fn |-> "adjust_difficulties", operation |-> op, key |-> "left"]
    /\ steps' = steps + 1
    /\ UNCHANGED <<user_answer, performance_file, cooldown,
                   performance_data, now, operation, problem, correct_answer, pc>>

KeyRight ==
    /\ steps < MaxSteps
    /\ \E op \in Ops :
          /\ adjust_difficulties_right(op)
          /\ call' = [fn |-> "adjust_difficulties", operation |-> op, key |-> "right"]
    /\ steps' = steps + 1
    /\ UNCHANGED <<user_answer, performance_file, cooldown,
                   performance_data, now, operation, problem, correct_answer, pc>>

NextAdjust == RecordAttempt \/ KeyLeft \/ KeyRight

SpecAdjust == InitAdjust /\ [][NextAdjust]_vars

(***************************************************************************)
(* is_trivial_problem                                                      *)
(***************************************************************************)
\* mutant of small_in_higher_difficulty: min in place of max
smallest_in_higher_difficulty(num1, symbol, num2) ==
    config.difficulties[operation_map(symbol)] > 3 /\ Min(num1, num2) < 5

\* difficulty > 3 and max(num1, num2) < 5, the difficulty being the
\* configured one of the operation
small_in_higher_difficulty(num1, symbol, num2) ==
    config.difficulties[operation_map(symbol)] > 3 /\ Max(num1, num2) < 5

is_trivial_problem(num1, symbol, num2) ==
    IF symbol = "/" /\ num2 = 1 THEN TRUE
    ELSE IF symbol = "*" /\ (num1 = 1 \/ num2 = 1) THEN TRUE
    ELSE IF symbol = "+" /\ (num1 = 0 \/ num2 = 0) THEN TRUE
    ELSE IF symbol = "-" /\ num1 = num2 THEN TRUE
    ELSE IF symbol = "-" /\ num1 = 0 THEN TRUE
    ELSE IF symbol = "/" /\ num1 = num2 /\ num1 # 0 THEN TRUE
    ELSE IF symbol = "/" /\ num1 = 0 THEN TRUE
    ELSE small_in_higher_difficulty(num1, symbol, num2)

(***************************************************************************)
(* SpecTrivial: is_trivial_problem applied to operands 0..MaxOperand under *)
(* every uniform difficulty 1..MaxDifficulty.                              *)
(***************************************************************************)
UniformConfigs ==
    {[default_config EXCEPT !.difficulties = [op \in Ops |-> d]] :
        d \in 1..MaxDifficulty}

InitTrivial ==
    /\ config \in UniformConfigs
    /\ config_file = save_config(config)
    /\ performance_data = <<>>
    /\ now = 0
    /\ operation = NoOperation
    /\ problem = NoProblem
    /\ correct_answer = 0
    /\ call = NoCall
    /\ steps = 0
    /\ user_answer = 0
    /\ cooldown = 0
    /\ performance_file = save_performance_data(performance_data)
    /\ pc = "menu"

ApplyIsTrivial ==
    /\ \E num1 \in 0..MaxOperand, symbol \in Symbols, num2 \in 0..MaxOperand :
          call' = [fn |-> "is_trivial_problem", num1 |-> num1, symbol |-> symbol,
                   num2 |-> num2, result |-> is_trivial_problem(num1, symbol, num2)]
    /\ UNCHANGED <<user_answer, performance_file, cooldown,
                   config, config_file, performance_data, now, operation, problem,
                   correct_answer, steps, pc>>

NextTrivial == ApplyIsTrivial

SpecTrivial == InitTrivial /\ [][NextTrivial]_vars

(***************************************************************************)
(* Exact rationals [n, d], d > 0, in lowest terms.                         *)
(***************************************************************************)
RECURSIVE GCD(_, _)
GCD(a, b) == IF b = 0 THEN a ELSE GCD(b, a % b)

Abs(a) == IF a < 0 THEN -a ELSE a

Rat(n, d) ==
    LET g == GCD(Abs(n), Abs(d))
        sgn == IF d < 0 THEN -1 ELSE 1
    IN [n |-> sgn * (n \div g), d |-> sgn * (d \div g)]

RatAdd(a, b) == Rat(a.n * b.d + b.n * a.d, a.d * b.d)

RatMul(a, b) == Rat(a.n * b.n, a.d * b.d)

RatDiv(a, b) == Rat(a.n * b.d, a.d * b.n)

RatLe(a, b) == a.n * b.d <= b.n * a.d

RatLt(a, b) == a.n * b.d < b.n * a.d

RatMax(a, b) == IF RatLe(b, a) THEN a ELSE b

RatMin(a, b) == IF RatLe(a, b) THEN a ELSE b

RECURSIVE RatSum(_)
RatSum(s) == IF s = <<>> THEN Rat(0, 1) ELSE RatAdd(Head(s), RatSum(Tail(s)))

(***************************************************************************)
(* get_problem_weights                                                     *)
(***************************************************************************)
\* max(0, (24 - time_diff.total_seconds() / 3600) / (18 * difficulty))
time_weight(entry, current_time) ==
    RatMax(Rat(0, 1),
           Rat(24 - (current_time - entry.timestamp), 18 * entry.difficulty))

\* the entries of one operation, in order
entries_of(data, op) == SelectSeq(data, LAMBDA x : operation_map(x.operation) = op)

\* problem_stats[problem]: correct_weight, attempts, difficulty_sum
problem_stats(data, op, current_time) ==
    LET mine == entries_of(data, op)
    IN [correct_weight |->
            RatSum([i \in 1..Len(mine) |->
                       IF mine[i].correct THEN time_weight(mine[i], current_time)
                       ELSE Rat(0, 1)]),
        attempts |-> Len(mine),
        difficulty_sum |-> SumSeq([i \in 1..Len(mine) |-> mine[i].difficulty])]

\* mutant of cap_weight: the lower bound is dropped
cap_weight_above(weight) == RatMin(weight, Rat(5, 1))

\* max(1, min(weight, 5))
cap_weight(weight) == RatMax(Rat(1, 1), RatMin(weight, Rat(5, 1)))

\* (1 / (accuracy + 0.1)) * avg_difficulty
raw_weight(stats) ==
    LET avg_difficulty == Rat(stats.difficulty_sum, stats.attempts)
        accuracy == RatDiv(stats.correct_weight, Rat(stats.attempts, 1))
    IN RatMul(RatDiv(Rat(1, 1), RatAdd(accuracy, Rat(1, 10))), avg_difficulty)

\* the dict get_problem_weights returns: one key per operation with entries
get_problem_weights(data, current_time) ==
    [op \in {o \in Ops : Len(entries_of(data, o)) > 0} |->
        cap_weight(raw_weight(problem_stats(data, op, current_time)))]

\* main_game: [problem_weights.get(op, 1) for op in operations]
draw_weights(problem_weights) ==
    [op \in Ops |-> IF op \in DOMAIN problem_weights THEN problem_weights[op]
                    ELSE Rat(1, 1)]

(***************************************************************************)
(* SpecWeights: get_problem_weights applied to every history of at most    *)
(* MaxWeighed records, logged 6 hours ahead of, 6 hours before and 30      *)
(* hours before the clock.                                                 *)
(***************************************************************************)
Stamps == {0, 24, 36}

WeighedEntries ==
    {attempt_entry([num1 |-> 6, operation |-> symbol, num2 |-> 3], c, 1, d, ts) :
        symbol \in Symbols, c \in BOOLEAN, d \in 1..2, ts \in Stamps}

RECURSIVE SeqsUpTo(_, _)
\* the sequences over S of length at most n
SeqsUpTo(S, n) ==
    IF n = 0 THEN {<<>>}
    ELSE LET shorter == SeqsUpTo(S, n - 1)
         IN shorter \cup {Append(s, x) : s \in shorter, x \in S}

InitWeights ==
    /\ config = default_config
    /\ config_file = [exists |-> FALSE, valid |-> FALSE, data |-> default_config]
    /\ performance_data \in SeqsUpTo(WeighedEntries, MaxWeighed)
    /\ now = 30
    /\ operation = NoOperation
    /\ problem = NoProblem
    /\ correct_answer = 0
    /\ call = NoCall
    /\ steps = 0
    /\ user_answer = 0
    /\ cooldown = 0
    /\ performance_file = save_performance_data(performance_data)
    /\ pc = "menu"

ApplyWeights ==
    /\ call' = [fn |-> "get_problem_weights",
                result |-> draw_weights(get_problem_weights(performance_data, now))]
    /\ UNCHANGED <<user_answer, performance_file, cooldown,
                   config, config_file, performance_data, now, operation, problem,
                   correct_answer, steps, pc>>

NextWeights == ApplyWeights

SpecWeights == InitWeights /\ [][NextWeights]_vars

(***************************************************************************)
(* check_error_patterns                                                    *)
(***************************************************************************)
\* the keys of the patterns dict, in insertion order
PatternNames ==
    <<"carrying", "borrowing", "multiplication_tables", "division_remainder",
      "large_numbers", "zero_handling">>

NoPattern == "none"

\* mutant of counts_as_carrying: the two-digit guard is dropped
needs_carrying(e) ==
    e.operation = "+" /\ (e.num1 % 10) + (e.num2 % 10) >= 10

\* op == '+' and (num1 >= 10 or num2 >= 10), then num1 % 10 + num2 % 10 >= 10
counts_as_carrying(e) ==
    /\ e.operation = "+" /\ (e.num1 >= 10 \/ e.num2 >= 10)
    /\ (e.num1 % 10) + (e.num2 % 10) >= 10

\* the elif chain is entered at '+' only when an operand has two digits
counts_as_borrowing(e) ==
    /\ ~(e.operation = "+" /\ (e.num1 >= 10 \/ e.num2 >= 10))
    /\ e.operation = "-" /\ e.num1 >= 10
    /\ (e.num1 % 10) < (e.num2 % 10)

counts_as_multiplication_tables(e) ==
    /\ e.operation = "*"
    /\ 1 <= e.num1 /\ e.num1 <= 12 /\ 1 <= e.num2 /\ e.num2 <= 12

counts_as_large_numbers(e) ==
    e.operation = "*" /\ (e.num1 > 100 \/ e.num2 > 100)

\* num1 % num2 is evaluated for every '/' entry that reaches its branch
reaches_division(e) == ~(e.operation = "-" /\ e.num1 >= 10) /\ e.operation = "/"

counts_as_division_remainder(e) ==
    reaches_division(e) /\ e.num2 # 0 /\ e.num1 % e.num2 # 0

counts_as_zero_handling(e) == e.num1 = 0 \/ e.num2 = 0

counts_as(name, e) ==
    CASE name = "carrying" -> counts_as_carrying(e)
      [] name = "borrowing" -> counts_as_borrowing(e)
      [] name = "multiplication_tables" -> counts_as_multiplication_tables(e)
      [] name = "division_remainder" -> counts_as_division_remainder(e)
      [] name = "large_numbers" -> counts_as_large_numbers(e)
      [] name = "zero_handling" -> counts_as_zero_handling(e)

\* the patterns dict after the loop over recent_errors
pattern_counts(recent_errors) ==
    [k \in 1..Len(PatternNames) |->
        Cardinality({i \in 1..Len(recent_errors) :
                        counts_as(PatternNames[k], recent_errors[i])})]

\* max(patterns.items(), key=lambda x: x[1]): the first key with the largest count
most_common_pattern(counts) ==
    CHOOSE k \in 1..Len(counts) :
        /\ \A j \in 1..Len(counts) : counts[j] <= counts[k]
        /\ \A j \in 1..(k - 1) : counts[j] < counts[k]

\* mutant of recent_data: the whole history is examined
recent_data_unsliced(data) == data

\* performance_data[-30:]
recent_data(data) == LastN(data, 30)

\* check_error_patterns(); "ZeroDivisionError" when num1 % num2 meets a zero divisor
check_error_patterns(data) ==
    IF Len(data) < 10 THEN NoPattern
    ELSE LET recent_errors == SelectSeq(recent_data(data), LAMBDA x : ~x.correct)
             counts == pattern_counts(recent_errors)
             best == most_common_pattern(counts)
         IN IF Len(recent_errors) < 3 THEN NoPattern
            ELSE IF \E i \in 1..Len(recent_errors) :
                        reaches_division(recent_errors[i]) /\ recent_errors[i].num2 = 0
            THEN "ZeroDivisionError"
            ELSE IF 5 * counts[best] >= Len(recent_errors)
            THEN PatternNames[best]
            ELSE NoPattern

(***************************************************************************)
(* SpecPattern: check_error_patterns applied to a history of up to MaxFill *)
(* correct records, then up to MaxErrors incorrect ones, then none or 30   *)
(* further correct ones.                                                   *)
(***************************************************************************)
ErrorProblems ==
    {[num1 |-> 7, operation |-> "+", num2 |-> 8],
     [num1 |-> 17, operation |-> "+", num2 |-> 8],
     [num1 |-> 32, operation |-> "-", num2 |-> 7],
     [num1 |-> 6, operation |-> "*", num2 |-> 7],
     [num1 |-> 120, operation |-> "*", num2 |-> 3],
     [num1 |-> 150, operation |-> "+", num2 |-> 3],
     [num1 |-> 0, operation |-> "+", num2 |-> 5]}

ErrorEntries == {attempt_entry(p, FALSE, 3, 1, 0) : p \in ErrorProblems}

FillEntry == attempt_entry([num1 |-> 2, operation |-> "+", num2 |-> 3], TRUE, 1, 1, 0)

PatternHistories ==
    {Repeat(FillEntry, pre) \o errors \o Repeat(FillEntry, post) :
        pre \in 0..MaxFill, errors \in SeqsUpTo(ErrorEntries, MaxErrors),
        post \in {0, 30}}

InitPattern ==
    /\ config = default_config
    /\ config_file = [exists |-> FALSE, valid |-> FALSE, data |-> default_config]
    /\ performance_data \in PatternHistories
    /\ now = 0
    /\ operation = NoOperation
    /\ problem = NoProblem
    /\ correct_answer = 0
    /\ call = NoCall
    /\ steps = 0
    /\ user_answer = 0
    /\ cooldown = 0
    /\ performance_file = save_performance_data(performance_data)
    /\ pc = "menu"

ApplyCheckErrorPatterns ==
    /\ call' = [fn |-> "check_error_patterns",
                result |-> check_error_patterns(performance_data)]
    /\ UNCHANGED <<user_answer, performance_file, cooldown,
                   config, config_file, performance_data, now, operation, problem,
                   correct_answer, steps, pc>>

NextPattern == ApplyCheckErrorPatterns

SpecPattern == InitPattern /\ [][NextPattern]_vars

(***************************************************************************)
(* Problem generation.  A generator is modelled by the set of outcomes its *)
(* random draws can produce.  An outcome is a record: kind "append" is a   *)
(* problem with its displayed operands, its answer and the branch (mode)   *)
(* that drew it; "continue" is an iteration skipped as trivial; "none" is  *)
(* generate_targeted_problem's (None, None); "raise" is an exception.      *)
(***************************************************************************)
Cand(num1, symbol, num2, answer, mode) ==
    [kind |-> "append", num1 |-> num1, operation |-> symbol, num2 |-> num2,
     answer |-> answer, mode |-> mode]

Skipped ==
    [kind |-> "continue", num1 |-> 0, operation |-> "none", num2 |-> 0,
     answer |-> 0, mode |-> "none"]

NoneReturned ==
    [kind |-> "none", num1 |-> 0, operation |-> "none", num2 |-> 0,
     answer |-> 0, mode |-> "none"]

\* random.randint(2, max_factor) with max_factor < 2: "empty range for randrange()"
ValueError ==
    [kind |-> "raise", num1 |-> 0, operation |-> "none", num2 |-> 0,
     answer |-> 0, mode |-> "ValueError"]

\* ZeroDivisionError out of check_error_patterns
ZeroDivisionError ==
    [kind |-> "raise", num1 |-> 0, operation |-> "none", num2 |-> 0,
     answer |-> 0, mode |-> "ZeroDivisionError"]

\* random.randint(a, b) where the code makes sure that a <= b; the draws
\* followed are the MaxDraw smallest and the MaxDraw largest of the range
RandInt(a, b) == {n \in a..b : n < a + MaxDraw \/ n > b - MaxDraw}

RECURSIVE TimesDigits(_, _, _)
\* the decimal digits, least significant first, of m times the number with
\* digits ds, plus carry
TimesDigits(ds, m, carry) ==
    IF ds = <<>>
    THEN IF carry = 0 THEN <<>>
         ELSE <<carry % 10>> \o TimesDigits(<<>>, m, carry \div 10)
    ELSE LET v == Head(ds) * m + carry
         IN <<v % 10>> \o TimesDigits(Tail(ds), m, v \div 10)

RECURSIVE ScaledDigits(_)
\* the digits of 5 * 11^k
ScaledDigits(k) == IF k = 0 THEN <<5>> ELSE TimesDigits(ScaledDigits(k - 1), 11, 0)

RECURSIVE DigitsValue(_)
DigitsValue(ds) == IF ds = <<>> THEN 0 ELSE Head(ds) + 10 * DigitsValue(Tail(ds))

\* round(base_val * (growth_factor ** (difficulty - 1))) in place of int(...)
adjusted_max_val_rounded(difficulty) ==
    LET k == difficulty - 1
        ds == ScaledDigits(k)
    IN DigitsValue(SubSeq(ds, k + 1, Len(ds)))
       + (IF k >= 1 /\ ds[k] >= 5 THEN 1 ELSE 0)

\* int(base_val * (growth_factor ** (difficulty - 1))), which is
\* floor(5 * 11^k / 10^k) for k = difficulty - 1: the digits of 5 * 11^k
\* without the k lowest
adjusted_max_val(difficulty) ==
    LET k == difficulty - 1
        ds == ScaledDigits(k)
    IN DigitsValue(SubSeq(ds, k + 1, Len(ds)))

\* mutant of smart_adjusted_max_val: a floor of 20
smart_adjusted_max_val_wide(difficulty) == Max(adjusted_max_val(difficulty), 20)

\* max(adjusted_max_val, 10)
smart_adjusted_max_val(difficulty) == Max(adjusted_max_val(difficulty), 10)

generate_problem(op, difficulty, allow_negative) ==
    LET max_val == adjusted_max_val(difficulty)
    IN CASE op = "addition" ->
              {Cand(num1, "+", num2, num1 + num2, "plain") :
                  num1 \in RandInt(1, max_val), num2 \in RandInt(1, max_val)}
         [] op = "subtraction" ->
              UNION {{Cand(num1, "-", num2, num1 - num2, "plain") :
                         num2 \in IF ~allow_negative THEN RandInt(1, num1)
                                  ELSE RandInt(1, max_val)} :
                     num1 \in RandInt(1, max_val)}
         [] op = "multiplication" ->
              {Cand(num1, "*", num2, num1 * num2, "plain") :
                  num1 \in RandInt(1, max_val), num2 \in RandInt(1, max_val)}
         [] op = "division" ->
              {Cand(num2 * answer, "/", num2, answer, "plain") :
                  num2 \in RandInt(1, max_val), answer \in RandInt(1, max_val)}

\* mutant of ordered_subtraction: the operands are never switched
unordered_subtraction(num1, num2, allow_negative) ==
    Cand(num1, "-", num2, num1 - num2, "targeted")

\* mutant of ordered_subtraction: the answer is taken before the switch
ordered_subtraction_stale(num1, num2, allow_negative) ==
    IF num2 > num1 /\ ~allow_negative
    THEN Cand(num2, "-", num1, num1 - num2, "targeted")
    ELSE Cand(num1, "-", num2, num1 - num2, "targeted")

\* if num2 > num1 and not allow_negative: num1, num2 = num2, num1
\* return f"{num1} - {num2}", num1 - num2
ordered_subtraction(num1, num2, allow_negative) ==
    IF num2 > num1 /\ ~allow_negative
    THEN Cand(num2, "-", num1, num2 - num1, "targeted")
    ELSE Cand(num1, "-", num2, num1 - num2, "targeted")

generate_targeted_problem(pattern_type, max_val, allow_negative) ==
    CASE pattern_type = "carrying" ->
           UNION {{Cand(num1, "+", num2, num1 + num2, "targeted") :
                      num2 \in RandInt(10 - (num1 % 10), Min(max_val, 99))} :
                  num1 \in RandInt(1, Min(max_val, 90))}
      [] pattern_type = "borrowing" ->
           UNION {{ordered_subtraction(num1, num2, allow_negative) :
                      num2 \in RandInt((num1 % 10) + 1, Min(num1, 9) + 10)} :
                  num1 \in RandInt(10, Min(max_val, 99))}
      [] pattern_type = "multiplication_tables" ->
           {Cand(num1, "*", num2, num1 * num2, "targeted") :
               num1 \in RandInt(2, Min(max_val, 12)),
               num2 \in RandInt(2, Min(max_val, 12))}
      [] pattern_type = "large_numbers" ->
           LET scale == Min(max_val \div 10, 100)
               clamped(num1, num2) ==
                   IF num1 * num2 > max_val THEN max_val \div num2 ELSE num1
           IN IF scale < 10 THEN {NoneReturned}
              ELSE UNION {{Cand(num1, "+", num2, num1 + num2, "targeted"),
                           ordered_subtraction(num1, num2, allow_negative),
                           Cand(clamped(num1, num2), "*", num2,
                                clamped(num1, num2) * num2, "targeted")} :
                          num1 \in RandInt(scale, Min(max_val, scale * 10)),
                          num2 \in RandInt(1, Min(max_val, 20))}
      [] pattern_type = "zero_handling" ->
           LET pairs == {<<0, num2>> : num2 \in RandInt(1, max_val)}
                        \cup {<<num1, 0>> : num1 \in RandInt(1, max_val)}
           IN UNION {{Cand(p[1], "+", p[2], p[1] + p[2], "targeted"),
                      ordered_subtraction(p[1], p[2], allow_negative),
                      Cand(p[1], "*", p[2], p[1] * p[2], "targeted")} :
                     p \in pairs}
      [] pattern_type = "division_remainder" ->
           UNION {{Cand(divisor * quotient, "/", divisor, quotient, "targeted") :
                      quotient \in RandInt(1, max_val \div divisor)} :
                  divisor \in RandInt(2, Min(max_val, 12))}
      [] OTHER -> {NoneReturned}

\* if is_trivial_problem(...): continue
skip_trivial(outcomes) ==
    {IF c.kind = "append" /\ is_trivial_problem(c.num1, c.operation, c.num2)
     THEN Skipped ELSE c : c \in outcomes}

\* if random.random() < 0.5: problem = f"{num2} + {num1}" (or "*")
swap_display(outcomes) ==
    outcomes \cup {[c EXCEPT !.num1 = c.num2, !.num2 = c.num1] : c \in outcomes}

possible_targets == {10, 20, 50, 100, 200, 500, 1000}

\* one iteration of the fill loop, operation == 'addition'
fill_addition(difficulty, max_val, educational_focus) ==
    LET first == skip_trivial({Cand(num1, "+", num2, num1 + num2, "standard") :
                     num1 \in RandInt(1, max_val), num2 \in RandInt(1, max_val)})
        kept == first \ {Skipped}
        targets == IF max_val >= 10
                   THEN {10} \cup (IF max_val >= 100 THEN {100} ELSE {})
                   ELSE {}
        bonds == UNION {{Cand(num1, "+", target - num1, target, "weighted") :
                            num1 \in RandInt(1, Min(target - 1, max_val))} :
                        target \in {t \in targets : t <= max_val}}
        suitable_targets == {t \in possible_targets : t <= max_val * 2}
        rounds == skip_trivial(UNION {{Cand(num1, "+", target - num1, target, "round") :
                                          num1 \in RandInt(1, target - 1)} :
                                      target \in suitable_targets})
        later == IF kept = {} THEN {}
                 ELSE IF educational_focus THEN kept \cup bonds
                 ELSE IF difficulty > 1 THEN kept \cup rounds
                 ELSE kept
    IN ((first \cup later) \cap {Skipped}) \cup swap_display(later \ {Skipped})

\* one iteration of the fill loop, operation == 'subtraction'
fill_subtraction(difficulty, max_val, allow_negative, educational_focus) ==
    LET base_options == {b \in {10, 20, 100} : max_val >= b}
        suitable_targets == {t \in possible_targets : t <= max_val}
        second(num1, mode) ==
            {Cand(num1, "-", num2, num1 - num2, mode) :
                num2 \in IF ~allow_negative THEN RandInt(1, num1)
                         ELSE RandInt(1, max_val)}
        standard == UNION {second(num1, "standard") : num1 \in RandInt(1, max_val)}
        weighted == UNION {second(num1, "weighted") : num1 \in base_options}
        round == UNION {{Cand(num1, "-", num2, num1 - num2, "round") :
                            num2 \in RandInt(1, num1)} :
                        num1 \in suitable_targets}
    IN skip_trivial(IF educational_focus THEN standard \cup weighted
                    ELSE IF difficulty > 1 THEN standard \cup round
                    ELSE standard)

\* one iteration of the fill loop, operation == 'multiplication'
fill_multiplication(difficulty, max_val, educational_focus) ==
    LET product(num1, num2, mode) == Cand(num1, "*", num2, num1 * num2, mode)
        tables(mode) ==
            {product(num1, num2, mode) :
                num1 \in RandInt(2, Min(12, max_val)),
                num2 \in RandInt(2, Min(12, max_val))}
        basic == UNION {{product(num1, num2, "standard") :
                            num2 \in IF max_val \div Max(1, num1) >= 2
                                     THEN RandInt(2, max_val \div Max(1, num1))
                                     ELSE {2}} :
                        num1 \in RandInt(2, max_val)}
        nines == IF max_val >= 9
                 THEN {product(9, num2, "weighted") :
                          num2 \in IF max_val \div 9 >= 2
                                   THEN RandInt(2, Min(max_val \div 9, 12))
                                   ELSE {2}}
                 ELSE tables("weighted")
        doubling(multiplier) ==
            IF max_val >= multiplier
            THEN IF max_val \div multiplier >= 2
                 THEN {product(num1, multiplier, "weighted") :
                          num1 \in RandInt(2, max_val \div multiplier)}
                 ELSE {ValueError}
            ELSE tables("weighted")
        possible_multipliers == {m \in {10, 100, 1000} : max_val >= m}
        by_ten == IF possible_multipliers = {} THEN basic
                  ELSE UNION {IF max_val \div num2 >= 2
                              THEN {product(num1, num2, "round") :
                                       num1 \in RandInt(2, max_val \div num2)}
                              ELSE basic :
                              num2 \in possible_multipliers}
        drawn == IF educational_focus
                 THEN tables("weighted") \cup nines
                      \cup UNION {doubling(multiplier) : multiplier \in {2, 4, 8}}
                 ELSE tables("standard") \cup basic
                      \cup (IF difficulty > 1 THEN by_ten ELSE {})
        screened == skip_trivial(drawn)
    IN {c \in screened : c.kind # "append"}
       \cup swap_display({c \in screened : c.kind = "append"})

\* one iteration of the fill loop, operation == 'division'
fill_division(difficulty, max_val, educational_focus) ==
    LET quotients(num2) ==
            IF max_val \div Max(1, num2) >= 2
            THEN RandInt(2, max_val \div Max(1, num2)) ELSE {2}
        by(divisors, mode) ==
            UNION {{Cand(num2 * answer, "/", num2, answer, mode) :
                       answer \in quotients(num2)} :
                   num2 \in divisors}
        twice(divisors, mode) == {Cand(num2 * 2, "/", num2, 2, mode) : num2 \in divisors}
        halving == IF max_val >= 2
                   THEN IF max_val \div 2 >= 2
                        THEN {Cand(2 * answer, "/", 2, answer, "weighted") :
                                 answer \in RandInt(2, max_val \div 2)}
                        ELSE {ValueError}
                   ELSE {ValueError}
        divisor_options == {o \in {5, 10, 25} : max_val >= o}
        possible_divisors == {o \in {10, 100} : max_val >= o}
        drawn == IF educational_focus
                 THEN by(RandInt(2, Min(9, max_val)), "weighted") \cup halving
                      \cup (IF divisor_options # {} THEN by(divisor_options, "weighted")
                            ELSE twice(RandInt(2, max_val), "weighted"))
                 ELSE by(RandInt(2, Min(12, max_val)), "standard")
                      \cup by(RandInt(2, max_val), "standard")
                      \cup (IF difficulty > 2
                            THEN IF possible_divisors # {}
                                 THEN by(possible_divisors, "round")
                                 ELSE twice(RandInt(2, max_val), "round")
                            ELSE {})
    IN skip_trivial(drawn)

fill_iteration(op, difficulty, max_val, allow_negative, educational_focus) ==
    CASE op = "addition" -> fill_addition(difficulty, max_val, educational_focus)
      [] op = "subtraction" ->
           fill_subtraction(difficulty, max_val, allow_negative, educational_focus)
      [] op = "multiplication" ->
           fill_multiplication(difficulty, max_val, educational_focus)
      [] op = "division" -> fill_division(difficulty, max_val, educational_focus)

\* how many candidates the loop over range(max_candidates) can leave: it
\* appends the problems that are not trivial, skips the trivial ones and
\* breaks on (None, None)
targeted_counts(targeted) ==
    {k \in 0..25 :
        /\ k > 0 => \E c \in targeted : c.kind = "append"
        /\ k < 25 => \E c \in targeted : c.kind \in {"continue", "none"}}

\* how many candidates the while loop can add to have candidates: it stops
\* at 25 candidates or after 50 iterations, each appending or skipping
fill_counts(filled, have) ==
    {k \in 0..(25 - have) :
        /\ k > 0 => \E c \in filled : c.kind = "append"
        /\ k < 25 - have => \E c \in filled : c.kind = "continue"}

\* the candidates under one outcome of the two draws random.random() < 0.7
\* (target) and random.random() < 0.25 (educational_focus): what an
\* iteration of each loop can give, and the lengths <<have, more>> the
\* candidates list can reach in the two loops
smart_candidates(op, difficulty, allow_negative, pattern_detected, target, educational_focus) ==
    LET max_val == smart_adjusted_max_val(difficulty)
        targeted == IF target
                    THEN skip_trivial(generate_targeted_problem(pattern_detected,
                                                                max_val, allow_negative))
                    ELSE {}
        filled == fill_iteration(op, difficulty, max_val, allow_negative,
                                 educational_focus)
        before == IF target THEN targeted_counts(targeted) ELSE {0}
    IN [targeted |-> targeted, filled |-> filled, before |-> before,
        lengths |-> UNION {{<<have, more>> :
                              more \in IF have < 25 THEN fill_counts(filled, have)
                                       ELSE {0}} :
                           have \in before}]

\* the return with fewer than 3 candidates as the fallback's threshold
smart_choice_three(c, l, plain) ==
    IF l[1] + l[2] < 3 THEN plain
    ELSE (IF l[1] >= 1 THEN {x \in c.targeted : x.kind = "append"} ELSE {})
         \cup (IF l[2] >= 1 THEN {x \in c.filled : x.kind = "append"} ELSE {})

\* the return once the candidates list has l[1] targeted and l[2] filled
\* entries: the plain draw under 5 candidates, else the weighted choice.
\* Every score is positive, so the choice can return each candidate.
smart_choice(c, l, plain) ==
    IF l[1] + l[2] < 5 THEN plain
    ELSE (IF l[1] >= 1 THEN {x \in c.targeted : x.kind = "append"} ELSE {})
         \cup (IF l[2] >= 1 THEN {x \in c.filled : x.kind = "append"} ELSE {})

\* what one call can return under one outcome of the two draws, an
\* exception out of the while loop included
smart_generate_with(op, difficulty, allow_negative, pattern_detected, target, educational_focus) ==
    LET c == smart_candidates(op, difficulty, allow_negative, pattern_detected,
                              target, educational_focus)
        \* the return depends on the lengths up to 5 only
        shapes == {<<Min(l[1], 5), Min(l[2], 5)>> : l \in c.lengths}
    IN UNION {smart_choice(c, l, generate_problem(op, difficulty, allow_negative)) :
                 l \in shapes}
       \cup (IF \E have \in c.before : have < 25
             THEN {x \in c.filled : x.kind = "raise"} ELSE {})

smart_generate_problem(op, difficulty, allow_negative) ==
    LET pattern_detected == check_error_patterns(performance_data)
    IN IF pattern_detected = "ZeroDivisionError" THEN {ZeroDivisionError}
       ELSE UNION {smart_generate_with(op, difficulty, allow_negative,
                                       pattern_detected, target, educational_focus) :
                   target \in IF pattern_detected # NoPattern THEN BOOLEAN ELSE {FALSE},
                   educational_focus \in BOOLEAN}

(***************************************************************************)
(* The menu and the top of the game loop.                                  *)
(***************************************************************************)
\* main_menu, 'Start Game': main_game reads config['operations'] and
\* config['allow_negative']; the menu cannot change them while the game runs
StartGame ==
    /\ pc = "menu"
    /\ pc' = "round"
    /\ UNCHANGED <<user_answer, performance_file, cooldown,
                   config, config_file, performance_data, now, operation, problem,
                   correct_answer, call, steps>>

\* toggle_operations, KEY_ENTER on the operation op
ToggleOperation ==
    /\ pc = "menu"
    /\ \E op \in Ops :
          config' = [config EXCEPT !.operations[op] = ~config.operations[op]]
    /\ config_file' = save_config(config')
    /\ UNCHANGED <<user_answer, performance_file, cooldown,
                   performance_data, now, operation, problem, correct_answer, call,
                   steps, pc>>

\* main_menu, KEY_ENTER on 'Allow Negative Results'
ToggleNegative ==
    /\ pc = "menu"
    /\ config' = [config EXCEPT !.allow_negative = ~config.allow_negative]
    /\ config_file' = save_config(config')
    /\ UNCHANGED <<user_answer, performance_file, cooldown,
                   performance_data, now, operation, problem, correct_answer, call,
                   steps, pc>>

\* main_game, the top of the while loop: the operation is drawn from
\* list(operations.keys()) by weight, then the problem is generated
RoundStart ==
    /\ pc = "round"
    /\ steps < MaxRounds
    /\ LET problem_weights == draw_weights(get_problem_weights(performance_data, now))
       IN \E op \in {o \in DOMAIN config.operations :
                        RatLt(Rat(0, 1), problem_weights[o])} :
            \E r \in smart_generate_problem(op, config.difficulties[op],
                                            config.allow_negative) :
               /\ operation' = op
               /\ call' = [fn |-> "main_game", mode |-> r.mode]
               /\ IF r.kind = "raise"
                  THEN /\ problem' = NoProblem
                       /\ correct_answer' = 0
                       /\ user_answer' = user_answer
                       /\ performance_file' = save_performance_data(performance_data)
                       /\ pc' = "raised"
                  ELSE /\ problem' = [num1 |-> r.num1, operation |-> r.operation,
                                      num2 |-> r.num2]
                       /\ correct_answer' = r.answer
                       /\ user_answer' = 0
                       /\ performance_file' = performance_file
                       /\ pc' = "input"
    /\ steps' = steps + 1
    /\ UNCHANGED <<config, config_file, performance_data, now, cooldown>>

\* main_game, term.inkey() inside `for char in correct_answer': 'q' leaves the
\* game (finally: save_performance_data), the expected character is appended
\* to user_answer and after the last one the for-else logs a correct attempt,
\* any other key logs an incorrect attempt and starts the cooldown; the round
\* has taken 3 s (time.time() - start_time)
Keys == {"q", "char", "other"}

\* no key leaves the game
quit_key_none(inp) == FALSE

\* inp == 'q'
quit_key(inp) == inp = "q"

Key ==
    /\ pc = "input"
    /\ \E inp \in Keys, time_taken \in {3} :
          /\ call' = [fn |-> "inkey", inp |-> inp]
          /\ CASE quit_key(inp) ->
                    /\ performance_file' = save_performance_data(performance_data)
                    /\ pc' = "menu"
                    /\ UNCHANGED <<config, config_file, performance_data, user_answer>>
               [] ~quit_key(inp) /\ inp = "char"
                     /\ user_answer + 1 < DecLen(correct_answer) ->
                    /\ user_answer' = user_answer + 1
                    /\ UNCHANGED <<config, config_file, performance_data,
                                   performance_file, pc>>
               [] ~quit_key(inp) /\ inp = "char"
                     /\ user_answer + 1 = DecLen(correct_answer) ->
                    /\ user_answer' = user_answer + 1
                    /\ log_attempt(problem, TRUE, time_taken,
                                   config.difficulties[operation])
                    /\ pc' = "round"
                    /\ UNCHANGED performance_file
               [] ~quit_key(inp) /\ inp # "char" ->
                    /\ log_attempt(problem, FALSE, time_taken,
                                   config.difficulties[operation])
                    /\ pc' = "cooldown"
                    /\ UNCHANGED <<user_answer, performance_file>>
    /\ UNCHANGED <<now, operation, problem, correct_answer, steps, cooldown>>

\* while time.time() - start_cooldown < 1.5, in half seconds
cooldown_ticks == 3

\* main_game, term.inkey(timeout=...) during the 1.5 s after a wrong key:
\* the key is read and dropped
CooldownKey ==
    /\ pc = "cooldown"
    /\ cooldown < cooldown_ticks
    /\ \E inp \in Keys : UNCHANGED vars

\* half a second passes while term.inkey(timeout=...) waits
CooldownTick ==
    /\ pc = "cooldown"
    /\ cooldown < cooldown_ticks
    /\ cooldown' = cooldown + 1
    /\ UNCHANGED <<config, config_file, performance_data, now, operation, problem,
                   correct_answer, call, steps, user_answer, performance_file, pc>>

\* the cooldown loop is left whatever time has passed
CooldownOver_at_once ==
    /\ pc = "cooldown"
    /\ pc' = "round"
    /\ cooldown' = 0
    /\ UNCHANGED <<config, config_file, performance_data, now, operation, problem,
                   correct_answer, call, steps, user_answer, performance_file>>

\* main_game, the while condition fails after 1.5 s: break, back to the top
\* of the while True loop
CooldownOver ==
    /\ pc = "cooldown"
    /\ cooldown >= cooldown_ticks
    /\ pc' = "round"
    /\ cooldown' = 0
    /\ UNCHANGED <<config, config_file, performance_data, now, operation, problem,
                   correct_answer, call, steps, user_answer, performance_file>>

(***************************************************************************)
(* SpecRound: one round started under every uniform difficulty of          *)
(* RoundLevels, with and without negative results, after an empty history  *)
(* and after histories in which check_error_patterns detects each pattern. *)
(***************************************************************************)
RoundLevels == {1, MaxDifficulty, 33}

RoundErrors ==
    {[num1 |-> 17, operation |-> "+", num2 |-> 8],
     [num1 |-> 32, operation |-> "-", num2 |-> 7],
     [num1 |-> 6, operation |-> "*", num2 |-> 7],
     [num1 |-> 7, operation |-> "/", num2 |-> 2],
     [num1 |-> 120, operation |-> "*", num2 |-> 3],
     [num1 |-> 0, operation |-> "+", num2 |-> 5]}

RoundHistories ==
    {<<>>} \cup {Repeat(FillEntry, 7) \o Repeat(attempt_entry(p, FALSE, 3, 1, 0), MaxErrors) :
                    p \in RoundErrors}

InitRound ==
    /\ config \in {[default_config EXCEPT !.difficulties = [op \in Ops |-> d],
                                          !.allow_negative = n] :
                      d \in RoundLevels, n \in BOOLEAN}
    /\ config_file = save_config(config)
    /\ performance_data \in RoundHistories
    /\ now = 0
    /\ operation = NoOperation
    /\ problem = NoProblem
    /\ correct_answer = 0
    /\ call = NoCall
    /\ steps = 0
    /\ user_answer = 0
    /\ cooldown = 0
    /\ performance_file = save_performance_data(performance_data)
    /\ pc = "menu"

NextRound == StartGame \/ RoundStart

SpecRound == InitRound /\ [][NextRound]_vars

(***************************************************************************)
(* SpecDraw: the operations and the negative results are toggled in the    *)
(* menu, then a round is started (default difficulties, empty history).    *)
(***************************************************************************)
InitDraw ==
    /\ config = default_config
    /\ config_file = [exists |-> FALSE, valid |-> FALSE, data |-> default_config]
    /\ performance_data = <<>>
    /\ now = 0
    /\ operation = NoOperation
    /\ problem = NoProblem
    /\ correct_answer = 0
    /\ call = NoCall
    /\ steps = 0
    /\ user_answer = 0
    /\ cooldown = 0
    /\ performance_file = save_performance_data(performance_data)
    /\ pc = "menu"

NextDraw == ToggleOperation \/ ToggleNegative \/ StartGame \/ RoundStart

SpecDraw == InitDraw /\ [][NextDraw]_vars

(***************************************************************************)
(* SpecSelect: smart_generate_problem is applied to each operation under   *)
(* the lowest and the highest start-up difficulty, and its return is       *)
(* recorded with the length the candidates list had reached.  The return   *)
(* depends on the total length and on which of the two loops contributed,  *)
(* so of the pairs <<have, more>> that agree on these one is followed.     *)
(***************************************************************************)
InitSelect ==
    /\ config \in {[default_config EXCEPT !.difficulties = [op \in Ops |-> d],
                                          !.allow_negative = n] :
                      d \in {1, MaxDifficulty}, n \in BOOLEAN}
    /\ config_file = save_config(config)
    /\ performance_data \in RoundHistories
    /\ now = 0
    /\ operation = NoOperation
    /\ problem = NoProblem
    /\ correct_answer = 0
    /\ call = NoCall
    /\ steps = 0
    /\ user_answer = 0
    /\ cooldown = 0
    /\ performance_file = save_performance_data(performance_data)
    /\ pc = "menu"

ApplySmartGenerate ==
    /\ pc = "round"
    /\ call = NoCall
    /\ LET pattern_detected == check_error_patterns(performance_data)
       IN \E op \in Ops, educational_focus \in BOOLEAN,
             target \in IF pattern_detected # NoPattern THEN BOOLEAN ELSE {FALSE} :
            LET difficulty == config.difficulties[op]
                c == smart_candidates(op, difficulty, config.allow_negative,
                                      pattern_detected, target, educational_focus)
            IN \E l \in {x \in c.lengths : x[1] <= 1 \/ x[2] = 0} :
                 \E r \in smart_choice(c, l, generate_problem(op, difficulty,
                                                              config.allow_negative))
                          \cup (IF l[1] < 25
                                THEN {x \in c.filled : x.kind = "raise"} ELSE {}) :
                    call' = [fn |-> "smart_generate_problem", operation |-> op,
                             difficulty |-> difficulty,
                             allow_negative |-> config.allow_negative,
                             candidates |-> IF r.kind = "raise" THEN 0
                                            ELSE l[1] + l[2],
                             result |-> r]
    /\ UNCHANGED <<user_answer, performance_file, cooldown, config, config_file,
                   performance_data, now, operation, problem, correct_answer, steps,
                   pc>>

NextSelect == StartGame \/ ApplySmartGenerate

SpecSelect == InitSelect /\ [][NextSelect]_vars

(***************************************************************************)
(* SpecRange: the operand bound of generate_problem and of                 *)
(* smart_generate_problem is computed for the difficulties of a            *)
(* configuration set by hand in the Difficulties menu.                     *)
(***************************************************************************)
InitRange ==
    /\ config \in {[default_config EXCEPT !.difficulties = d] :
                      d \in [Ops -> 1..(MaxDifficulty + 3)]}
    /\ config_file = save_config(config)
    /\ performance_data = <<>>
    /\ now = 0
    /\ operation = NoOperation
    /\ problem = NoProblem
    /\ correct_answer = 0
    /\ call = NoCall
    /\ steps = 0
    /\ user_answer = 0
    /\ cooldown = 0
    /\ performance_file = save_performance_data(performance_data)
    /\ pc = "menu"

ApplyMaxVal ==
    /\ call = NoCall
    /\ \E op \in Ops, smart \in BOOLEAN :
          LET difficulty == config.difficulties[op]
          IN call' = [fn |-> "adjusted_max_val", difficulty |-> difficulty,
                      smart |-> smart,
                      result |-> IF smart THEN smart_adjusted_max_val(difficulty)
                                 ELSE adjusted_max_val(difficulty)]
    /\ UNCHANGED <<user_answer, performance_file, cooldown, config, config_file,
                   performance_data, now, operation, problem, correct_answer, steps,
                   pc>>

SpecRange == InitRange /\ [][ApplyMaxVal]_vars

(***************************************************************************)
(* SpecSession: the game is played key by key, from the menu, with the     *)
(* default configuration, after a one-record history.                      *)
(***************************************************************************)
InitSession ==
    /\ config = default_config
    /\ config_file = [exists |-> FALSE, valid |-> FALSE, data |-> default_config]
    /\ performance_data = <<FillEntry>>
    /\ now = 0
    /\ operation = NoOperation
    /\ problem = NoProblem
    /\ correct_answer = 0
    /\ call = NoCall
    /\ steps = 0
    /\ user_answer = 0
    /\ cooldown = 0
    /\ performance_file = save_performance_data(performance_data)
    /\ pc = "menu"

NextSession ==
    StartGame \/ RoundStart \/ Key \/ CooldownKey \/ CooldownTick \/ CooldownOver

SpecSession == InitSession /\ [][NextSession]_vars

(***************************************************************************)
(* SpecLoad: main reads performance.json and config.json, each of them     *)
(* missing, holding a JSON document, or holding text that is not JSON;     *)
(* then the menu is used.                                                  *)
(***************************************************************************)
\* before main: performance_data = [] (line 20); config is not bound yet, its
\* value here is read by no code
InitLoad ==
    /\ config = [operations |-> [op \in Ops |-> FALSE],
                 difficulties |-> [op \in Ops |-> 0], allow_negative |-> FALSE]
    /\ config_file \in
           {[exists |-> FALSE, valid |-> FALSE, data |-> default_config],
            [exists |-> TRUE, valid |-> FALSE, data |-> default_config],
            save_config(default_config),
            save_config([default_config EXCEPT !.difficulties["addition"] = MaxDifficulty,
                                               !.allow_negative = FALSE])}
    /\ performance_file \in
           {[exists |-> FALSE, valid |-> FALSE, data |-> <<>>],
            [exists |-> TRUE, valid |-> FALSE, data |-> <<>>],
            save_performance_data(<<>>),
            save_performance_data(<<FillEntry>>)}
    /\ performance_data = <<>>
    /\ now = 0
    /\ operation = NoOperation
    /\ problem = NoProblem
    /\ correct_answer = 0
    /\ call = NoCall
    /\ steps = 0
    /\ user_answer = 0
    /\ cooldown = 0
    /\ pc = "start"

\* main: load_performance_data(), config = load_config(), main_menu(term);
\* json.load raises JSONDecodeError on text that is not JSON and nothing
\* catches it
Load ==
    /\ pc = "start"
    /\ LET history == load_performance_data(performance_file)
           loaded == load_config(config_file)
       IN /\ performance_data' = IF history.raised THEN performance_data
                                 ELSE history.value
          /\ config' = IF history.raised \/ loaded.raised THEN config
                       ELSE loaded.value
          /\ pc' = IF history.raised \/ loaded.raised THEN "raised" ELSE "menu"
    /\ call' = [fn |-> "main"]
    /\ UNCHANGED <<config_file, performance_file, now, operation, problem,
                   correct_answer, steps, user_answer, cooldown>>

NextLoad == Load \/ ToggleOperation \/ ToggleNegative

SpecLoad == InitLoad /\ [][NextLoad]_vars

(***************************************************************************)
(* evaluate_problem_difficulty, on exact rationals.  The records of the    *)
(* history are ones the program wrote: a division has a divisor other than *)
(* 0.  Timestamps and the clock are in hours.                              *)
(***************************************************************************)
RatSub(a, b) == RatAdd(a, Rat(-b.n, b.d))

\* exact_match and similar_match
get_specific_problem_history(data, num1, symbol, num2) ==
    [exact |-> SelectSeq(data, LAMBDA e :
                   e.num1 = num1 /\ e.operation = symbol /\ e.num2 = num2),
     similar |-> SelectSeq(data, LAMBDA e :
                   /\ symbol \in {"+", "*"}
                   /\ e.num1 = num2 /\ e.operation = symbol /\ e.num2 = num1)]

\* mutant of exact_score: the floor of 0.5 is dropped
exact_score_unfloored(exact_wrong, exact_correct) ==
    LET raised == IF exact_wrong > 0
                  THEN RatAdd(Rat(1, 1), RatMin(Rat(exact_wrong, 2), Rat(2, 1)))
                  ELSE Rat(1, 1)
    IN IF exact_correct > 0 THEN RatSub(raised, Rat(3 * exact_correct, 10))
       ELSE raised

\* mutant of exact_score: correct answers raise the score
exact_score_rewarding(exact_wrong, exact_correct) ==
    LET raised == IF exact_wrong > 0
                  THEN RatAdd(Rat(1, 1), RatMin(Rat(exact_wrong, 2), Rat(2, 1)))
                  ELSE Rat(1, 1)
    IN IF exact_correct > 0
       THEN RatMax(Rat(1, 2), RatAdd(raised, Rat(3 * exact_correct, 10)))
       ELSE raised

\* score = 1.0; score += min(exact_wrong * 0.5, 2.0);
\* score = max(0.5, score - (0.3 * exact_correct))
exact_score(exact_wrong, exact_correct) ==
    LET raised == IF exact_wrong > 0
                  THEN RatAdd(Rat(1, 1), RatMin(Rat(exact_wrong, 2), Rat(2, 1)))
                  ELSE Rat(1, 1)
    IN IF exact_correct > 0
       THEN RatMax(Rat(1, 2), RatSub(raised, Rat(3 * exact_correct, 10)))
       ELSE raised

\* the similar_history block
similar_score(score, symbol, similar) ==
    LET similar_correct == recent_correct(similar)
        similar_wrong == Len(similar) - similar_correct
        raised == IF similar_wrong > 0
                  THEN RatAdd(score, RatMin(Rat(3 * similar_wrong, 10), Rat(1, 1)))
                  ELSE score
    IN IF symbol \in {"+", "*"} /\ Len(similar) > 0
       THEN IF similar_correct > 0
            THEN RatMax(Rat(3, 10), RatSub(raised, Rat(2 * similar_correct, 10)))
            ELSE raised
       ELSE score

\* str(eval(f"{num1} {operation} {num2}")): "/" is true division and gives
\* the text of a float ("3.0"), the other operations the text of an int
answer_text(num1, symbol, num2) ==
    IF symbol = "/" THEN [float |-> TRUE, value |-> Rat(num1, num2)]
    ELSE [float |-> FALSE, value |-> Rat(eval_int(num1, symbol, num2), 1)]

\* 0.7 if current_answer in recent_answers (the last five entries)
repeat_factor(data, num1, symbol, num2) ==
    LET last_five_entries == LastN(data, 5)
    IN IF \E i \in 1..Len(last_five_entries) :
             answer_text(last_five_entries[i].num1, last_five_entries[i].operation,
                         last_five_entries[i].num2) = answer_text(num1, symbol, num2)
       THEN Rat(7, 10) ELSE Rat(1, 1)

\* the spaced repetition block: due_factor = days_since_last_seen / optimal_interval
due_multiplier(combined_history, current_time) ==
    IF combined_history = <<>> THEN Rat(1, 1)
    ELSE LET latest == CHOOSE t \in {combined_history[i].timestamp :
                                        i \in 1..Len(combined_history)} :
                           \A i \in 1..Len(combined_history) :
                               combined_history[i].timestamp <= t
             n == Len(combined_history)
             correct == recent_correct(combined_history)
             due_factor == Rat((current_time - latest) * n, 24 * (n + 5 * correct))
         IN IF RatLt(due_factor, Rat(1, 2)) THEN Rat(1, 2)
            ELSE IF RatLt(Rat(4, 5), due_factor) /\ RatLt(due_factor, Rat(6, 5))
            THEN Rat(3, 2)
            ELSE IF RatLt(Rat(2, 1), due_factor) THEN Rat(13, 10)
            ELSE Rat(1, 1)

evaluate_problem_difficulty(data, num1, symbol, num2, normalized_typing_time, current_time) ==
    LET history == get_specific_problem_history(data, num1, symbol, num2)
        exact_correct == recent_correct(history.exact)
        exact_wrong == Len(history.exact) - exact_correct
        score == similar_score(exact_score(exact_wrong, exact_correct), symbol,
                               history.similar)
    IN RatMul(RatMul(RatMul(score, repeat_factor(data, num1, symbol, num2)),
                     due_multiplier(history.exact \o history.similar, current_time)),
              RatAdd(Rat(1, 1), RatMul(normalized_typing_time, Rat(3, 10))))

(***************************************************************************)
(* SpecScore: evaluate_problem_difficulty applied to "3 + 4", "4 + 3" and  *)
(* "9 - 2" after up to MaxExact correct and MaxExact incorrect "3 + 4", up *)
(* to MaxSimilar correct and incorrect "4 + 3", then nothing, five "2 + 3" *)
(* or one "14 / 2"; the clock is at 240 hours, the "3 + 4" were logged at  *)
(* one of ScoreStamps and the "4 + 3" at the same time or just now.        *)
(***************************************************************************)
ScoreStamps == {0, 120, 216, 240}

ScoreCandidates ==
    {[num1 |-> 3, operation |-> "+", num2 |-> 4],
     [num1 |-> 4, operation |-> "+", num2 |-> 3],
     [num1 |-> 9, operation |-> "-", num2 |-> 2]}

ScoreHistories ==
    LET three_four == [num1 |-> 3, operation |-> "+", num2 |-> 4]
        four_three == [num1 |-> 4, operation |-> "+", num2 |-> 3]
        tails == {<<>>,
                  Repeat(attempt_entry([num1 |-> 2, operation |-> "+", num2 |-> 3],
                                       TRUE, 1, 1, 0), 5),
                  <<attempt_entry([num1 |-> 14, operation |-> "/", num2 |-> 2],
                                  TRUE, 1, 1, 0)>>}
    IN {Repeat(attempt_entry(three_four, TRUE, 1, 1, s1), a)
        \o Repeat(attempt_entry(three_four, FALSE, 1, 1, s1), b)
        \o Repeat(attempt_entry(four_three, TRUE, 1, 1, IF later THEN 240 ELSE s1), c)
        \o Repeat(attempt_entry(four_three, FALSE, 1, 1, IF later THEN 240 ELSE s1), d)
        \o tail :
           a \in 0..MaxExact, b \in 0..MaxExact, c \in 0..MaxSimilar,
           d \in 0..MaxSimilar, s1 \in ScoreStamps, later \in BOOLEAN,
           tail \in tails}

InitScore ==
    /\ config = default_config
    /\ config_file = [exists |-> FALSE, valid |-> FALSE, data |-> default_config]
    /\ performance_data \in ScoreHistories
    /\ now = 240
    /\ operation = NoOperation
    /\ problem = NoProblem
    /\ correct_answer = 0
    /\ call = NoCall
    /\ steps = 0
    /\ user_answer = 0
    /\ cooldown = 0
    /\ performance_file = save_performance_data(performance_data)
    /\ pc = "menu"

\* the call of smart_generate_problem, made once on the loaded history:
\* normalized_typing_time is min(1.0, typing_time / 5.0), here also 0 and 1
ApplyScore ==
    /\ call = NoCall
    /\ \E p \in ScoreCandidates :
         \E normalized_typing_time \in
               {Rat(0, 1), Rat(1, 1),
                RatMin(Rat(1, 1),
                       Rat(estimate_typing_time(eval_text_len(p.num1, p.operation, p.num2)),
                           50))} :
            call' = [fn |-> "evaluate_problem_difficulty", num1 |-> p.num1,
                     symbol |-> p.operation, num2 |-> p.num2,
                     normalized_typing_time |-> normalized_typing_time,
                     result |-> evaluate_problem_difficulty(performance_data, p.num1,
                                    p.operation, p.num2, normalized_typing_time, now)]
    /\ UNCHANGED <<user_answer, performance_file, cooldown,
                   config, config_file, performance_data, now, operation, problem,
                   correct_answer, steps, pc>>

NextScore == ApplyScore

SpecScore == InitScore /\ [][NextScore]_vars

(***************************************************************************)
(* Claims about the difficulty adjuster (checked under SpecAdjust).        *)
(* The statements below are written from the claims' words: the window is  *)
(* found by counting, the variance as n*sum(x^2) - sum(x)^2.               *)
(***************************************************************************)
\* positions of the (at most) 20 most recent records of the operation
ClaimWindow(op) ==
    LET mine == {i \in 1..Len(performance_data) :
                    operation_map(performance_data[i].operation) = op}
    IN {i \in mine : Cardinality({j \in mine : j > i}) < 20}

RECURSIVE ClaimSum(_, _)
ClaimSum(S, f) ==
    IF S = {} THEN 0
    ELSE LET i == CHOOSE j \in S : TRUE IN f[i] + ClaimSum(S \ {i}, f)

\* the window's size n, its number of correct records, the sum s of its
\* times and the sum q of their squares
ClaimStats(op) ==
    LET w == ClaimWindow(op)
        time == [i \in 1..Len(performance_data) |-> performance_data[i].time_taken]
    IN [n |-> Cardinality(w),
        correct |-> Cardinality({i \in w : performance_data[i].correct}),
        s |-> ClaimSum(w, time),
        q |-> ClaimSum(w, [i \in 1..Len(performance_data) |-> time[i] * time[i]])]

\* n^2 (n-1) times the sample variance of the window's times
ClaimVar(st) == st.n * (st.n * st.q - st.s * st.s)

\* the z-score is taken as 0: fewer than 2 samples, or a zero deviation
ClaimZIsZero(st) == st.n < 2 \/ ClaimVar(st) = 0

\* z-score of time t <= -0.5
ClaimZLow(st, t) ==
    /\ ~ClaimZIsZero(st)
    /\ st.s >= st.n * t
    /\ 4 * (st.n - 1) * (st.s - st.n * t) * (st.s - st.n * t) >= ClaimVar(st)

\* z-score of time t >= 0.5
ClaimZHigh(st, t) ==
    /\ ~ClaimZIsZero(st)
    /\ st.n * t >= st.s
    /\ 4 * (st.n - 1) * (st.n * t - st.s) * (st.n * t - st.s) >= ClaimVar(st)

\* accuracy over the window > 0.75, < 0.6
ClaimAccHigh(st) == 100 * st.correct > 75 * st.n

ClaimAccLow(st) == 10 * st.correct < 6 * st.n

ClaimIncrease(st, t) == ClaimAccHigh(st) /\ ClaimZLow(st, t)

Logged == call.fn = "log_attempt"

\* C1: every operation's difficulty is an integer >= 1 in every reachable
\* state, whatever attempts are logged and whatever keys are pressed.
C1_DifficultyAtLeastOne ==
    \A op \in Ops : config.difficulties[op] \in Int /\ config.difficulties[op] >= 1

\* C1 witness: an incorrect attempt was logged at difficulty 1 on top of at
\* least 20 consecutive incorrect attempts of the operation, and it stays 1.
C1_Witness ==
    /\ Logged /\ ~call.correct /\ call.before = 1
    /\ LET st == ClaimStats(call.operation) IN st.n = 20 /\ st.correct = 0
    /\ Len(performance_data) > 20
    /\ config.difficulties[call.operation] = 1

\* C4: log_attempt raises the attempted operation's difficulty by exactly 1
\* when accuracy over its 20 most recent records (the new one included) is
\* > 0.75 and the z-score of the attempt's time is <= -0.5, and never raises
\* it otherwise.
C4_IncreaseExactlyWhen ==
    Logged =>
        LET st == ClaimStats(call.operation)
        IN /\ config.difficulties[call.operation] <= call.before + 1
           /\ (config.difficulties[call.operation] = call.before + 1)
                 <=> ClaimIncrease(st, call.time_taken)

\* C4 witness: an attempt was logged and the difficulty went up by one.
C4_Witness ==
    /\ Logged
    /\ ClaimIncrease(ClaimStats(call.operation), call.time_taken)
    /\ config.difficulties[call.operation] = call.before + 1

\* C5: when the increase condition fails, log_attempt lowers the difficulty
\* by 1 (not below 1) if accuracy < 0.6 or the z-score >= 0.5, and leaves it
\* alone otherwise; with fewer than 2 samples or a zero deviation the z-score
\* counts as 0, so there only the accuracy can lower it.
C5_DecreaseOrUnchanged ==
    Logged =>
        LET st == ClaimStats(call.operation)
            now_d == config.difficulties[call.operation]
        IN ~ClaimIncrease(st, call.time_taken) =>
             /\ now_d = IF ClaimAccLow(st) \/ ClaimZHigh(st, call.time_taken)
                        THEN (IF call.before > 1 THEN call.before - 1 ELSE 1)
                        ELSE call.before
             /\ (ClaimZIsZero(st) /\ ~ClaimAccLow(st)) => now_d = call.before

\* C5 witness: the times of the window are all equal (zero deviation), the
\* accuracy is at least 0.6 and the difficulty, above 1, was left alone.
C5_Witness ==
    /\ Logged /\ call.before > 1
    /\ LET st == ClaimStats(call.operation)
       IN st.n >= 2 /\ ClaimZIsZero(st) /\ ~ClaimAccLow(st)
    /\ config.difficulties[call.operation] = call.before

\* the difficulty log_attempt leaves when accuracy is the window's number of
\* correct records over denominator
ClaimAfter(st, denominator, t, before) ==
    IF 100 * st.correct > 75 * denominator /\ ClaimZLow(st, t) THEN before + 1
    ELSE IF 10 * st.correct < 6 * denominator \/ ClaimZHigh(st, t)
         THEN (IF before > 1 THEN before - 1 ELSE 1)
         ELSE before

\* C17, as amended: log_attempt decides on the accuracy taken as the number
\* of correct records among the operation's most recent 20 divided by the
\* number of records in that window (20, or fewer when the operation has
\* fewer records)
C17_AccuracyOverWindow ==
    Logged =>
        LET st == ClaimStats(call.operation)
        IN config.difficulties[call.operation] =
               ClaimAfter(st, st.n, call.time_taken, call.before)

\* C17 witness: fewer than 20 records of the operation, and the difficulty
\* left is not the one a division by 20 would give
C17_Witness ==
    /\ Logged
    /\ LET st == ClaimStats(call.operation)
       IN /\ st.n < 20
          /\ config.difficulties[call.operation] =
                 ClaimAfter(st, st.n, call.time_taken, call.before)
          /\ config.difficulties[call.operation] #
                 ClaimAfter(st, 20, call.time_taken, call.before)

\* C17, as stated: log_attempt decides on the accuracy taken as the number
\* of correct records among the operation's most recent 20 divided by 20,
\* also when the operation has fewer than 20 records
C17_AccuracyOverTwenty ==
    Logged =>
        LET st == ClaimStats(call.operation)
        IN config.difficulties[call.operation] =
               ClaimAfter(st, 20, call.time_taken, call.before)

(***************************************************************************)
(* Claims about is_trivial_problem (SpecTrivial) and get_problem_weights   *)
(* (SpecWeights).                                                          *)
(***************************************************************************)
\* the cases the claim lists
ClaimTrivial(num1, symbol, num2, difficulty) ==
    \/ symbol = "*" /\ (num1 = 1 \/ num2 = 1)
    \/ symbol = "/" /\ num2 = 1
    \/ symbol = "+" /\ (num1 = 0 \/ num2 = 0)
    \/ symbol = "-" /\ num1 = num2
    \/ symbol = "-" /\ num1 = 0
    \/ symbol = "/" /\ num1 = num2 /\ num1 # 0
    \/ symbol = "/" /\ num1 = 0
    \/ difficulty > 3 /\ num1 < 5 /\ num2 < 5

ClaimRejected ==
    {<<1, "*", 7>>, <<7, "*", 1>>, <<5, "+", 0>>, <<0, "+", 5>>, <<6, "-", 6>>,
     <<0, "-", 6>>, <<9, "/", 1>>, <<9, "/", 9>>, <<0, "/", 5>>}

ClaimAccepted == {<<6, "+", 7>>, <<12, "-", 5>>, <<6, "*", 7>>, <<12, "/", 4>>}

C9_WeightsClamped ==
    call.fn = "get_problem_weights" =>
        \A op \in Ops :
            /\ call.result[op].d > 0
            /\ call.result[op].d <= call.result[op].n
            /\ call.result[op].n <= 5 * call.result[op].d
            /\ (\A i \in 1..Len(performance_data) :
                    operation_map(performance_data[i].operation) # op)
                  => (call.result[op].n = 1 /\ call.result[op].d = 1)

\* C9 witness: the weights were computed for a history in which one operation
\* has only recent correct records (its weight is held up at 1), one has a
\* weight strictly between 1 and 5, and one has no record.
C9_Witness ==
    /\ call.fn = "get_problem_weights"
    /\ \E i \in 1..Len(performance_data) :
          /\ performance_data[i].correct /\ performance_data[i].timestamp = 36
          /\ performance_data[i].difficulty = 1
          /\ call.result[operation_map(performance_data[i].operation)] = [n |-> 1, d |-> 1]
          /\ \A j \in 1..Len(performance_data) : j # i =>
                performance_data[j].operation # performance_data[i].operation
    /\ \E op \in Ops :
          /\ call.result[op].d < call.result[op].n
          /\ call.result[op].n < 5 * call.result[op].d
    /\ \E op \in Ops : \A i \in 1..Len(performance_data) :
          operation_map(performance_data[i].operation) # op

(***************************************************************************)
(* Claims about check_error_patterns (SpecPattern).                        *)
(***************************************************************************)
\* an addition whose ones digits sum to 10 or more
ClaimCarryingType(e) ==
    e.operation = "+" /\ (e.num1 % 10) + (e.num2 % 10) >= 10

\* C10: given 30 records of which exactly 3 are incorrect, all 3 of them
\* carrying-type additions, check_error_patterns returns carrying.
C10_CarryingDetected ==
    (/\ call.fn = "check_error_patterns"
     /\ Len(performance_data) = 30
     /\ Cardinality({i \in 1..30 : ~performance_data[i].correct}) = 3
     /\ \A i \in 1..30 : ~performance_data[i].correct
                            => ClaimCarryingType(performance_data[i]))
        => call.result = "carrying"

(***************************************************************************)
(* Claims about the problem of a round (SpecRound, SpecDraw).              *)
(***************************************************************************)
\* a round has started and its problem is on screen
ClaimShown == pc = "input" /\ call.fn = "main_game"

\* C2: the answer of every problem put on screen equals operand1 operator
\* operand2 of the displayed text; a division has a divisor other than 0
\* and a dividend that is an exact multiple of it.
C2_AnswerMatchesProblem ==
    ClaimShown =>
        CASE problem.operation = "+" -> correct_answer = problem.num1 + problem.num2
          [] problem.operation = "-" -> correct_answer = problem.num1 - problem.num2
          [] problem.operation = "*" -> correct_answer = problem.num1 * problem.num2
          [] problem.operation = "/" ->
               /\ problem.num2 # 0
               /\ problem.num1 % problem.num2 = 0
               /\ correct_answer * problem.num2 = problem.num1
          [] OTHER -> FALSE

\* a targeted subtraction whose operands were switched (10 is the only
\* minuend drawn at this difficulty), and so was its answer
C2_Witness ==
    /\ ClaimShown
    /\ call.mode = "targeted"
    /\ config.difficulties["subtraction"] = 1
    /\ ~config.allow_negative
    /\ problem = [num1 |-> 17, operation |-> "-", num2 |-> 10]
    /\ correct_answer = 7

\* C3: the operation drawn for a round is one of the enabled operations.
C3_EnabledOperationDrawn ==
    (pc \in {"input", "raised"} /\ call.fn = "main_game") => config.operations[operation]

\* C6: without negative results, every subtraction put on screen has
\* operand1 >= operand2, and its answer is not negative.
C6_SubtractionNotNegative ==
    (ClaimShown /\ ~config.allow_negative /\ problem.operation = "-") =>
        problem.num1 >= problem.num2 /\ correct_answer >= 0

\* a targeted subtraction whose operands had to be switched: at difficulty 1
\* the minuend drawn is 10, so a subtrahend of 10 is a switched minuend
C6_Witness ==
    /\ ClaimShown
    /\ ~config.allow_negative
    /\ call.mode = "targeted"
    /\ config.difficulties["subtraction"] = 1
    /\ problem.operation = "-"
    /\ problem.num1 > problem.num2
    /\ problem.num2 = 10

\* C7 (amended): with an empty history, difficulty 1, addition and negative
\* results allowed, the problem is "<a> + <b>" with 0 < a <= 10 and
\* 0 < b <= 10, its answer is a + b, and it is not trivial.
C7_FirstAdditionWithinTen ==
    (/\ ClaimShown
     /\ performance_data = <<>>
     /\ operation = "addition"
     /\ config.difficulties[operation] = 1
     /\ config.allow_negative)
        => /\ problem.operation = "+"
           /\ 0 < problem.num1 /\ problem.num1 <= 10
           /\ 0 < problem.num2 /\ problem.num2 <= 10
           /\ correct_answer = problem.num1 + problem.num2
           /\ ~ClaimTrivial(problem.num1, "+", problem.num2, 1)

\* such a round with an operand above 5
C7_Witness ==
    /\ ClaimShown
    /\ performance_data = <<>>
    /\ operation = "addition"
    /\ config.difficulties[operation] = 1
    /\ config.allow_negative
    /\ problem = [num1 |-> 10, operation |-> "+", num2 |-> 7]
    /\ correct_answer = 17

\* C7 as stated: the operands are at most 5.
C7_FirstAdditionWithinFive ==
    (/\ ClaimShown
     /\ performance_data = <<>>
     /\ operation = "addition"
     /\ config.difficulties[operation] = 1
     /\ config.allow_negative)
        => /\ problem.operation = "+"
           /\ 0 < problem.num1 /\ problem.num1 <= 5
           /\ 0 < problem.num2 /\ problem.num2 <= 5
           /\ correct_answer = problem.num1 + problem.num2
           /\ ~ClaimTrivial(problem.num1, "+", problem.num2, 1)

\* the last 30 records of the history, by position
ClaimLastThirty ==
    LET n == Len(performance_data)
        k == IF n < 30 THEN n ELSE 30
    IN [i \in 1..k |-> performance_data[n - k + i]]

\* C11: check_error_patterns returns none when the history holds fewer than
\* 10 records or fewer than 3 incorrect ones among the last 30, and its
\* result is the one it gives on the last 30 records alone.
C11_NoneOnThinHistory ==
    call.fn = "check_error_patterns" =>
        /\ Len(performance_data) < 10 => call.result = "none"
        /\ Cardinality({i \in 1..Len(ClaimLastThirty) : ~ClaimLastThirty[i].correct}) < 3
              => call.result = "none"
        /\ Len(performance_data) >= 30
              => call.result = check_error_patterns(ClaimLastThirty)

\* three incorrect records, all older than the last 30, and no pattern
C11_Witness ==
    /\ call.fn = "check_error_patterns"
    /\ Len(performance_data) > 30
    /\ Cardinality({i \in 1..(Len(performance_data) - 30) :
                       ~performance_data[i].correct}) = 3
    /\ call.result = "none"

\* the categories in their order, and the records each one counts
ClaimCategories ==
    <<"carrying", "borrowing", "multiplication_tables", "division_remainder",
      "large_numbers", "zero_handling">>

ClaimCounted(k, e) ==
    CASE k = 1 -> e.operation = "+" /\ (e.num1 % 10) + (e.num2 % 10) >= 10
      [] k = 2 -> e.operation = "-" /\ (e.num1 % 10) < (e.num2 % 10)
      [] k = 3 -> e.num1 \in 1..12 /\ e.num2 \in 1..12
      [] k = 4 -> e.operation = "/" /\ e.num2 # 0 /\ e.num1 % e.num2 # 0
      [] k = 5 -> e.num1 > 100 \/ e.num2 > 100
      [] k = 6 -> e.num1 = 0 \/ e.num2 = 0

\* the incorrect records among the last 30, as positions of ClaimLastThirty
ClaimErrors == {i \in 1..Len(ClaimLastThirty) : ~ClaimLastThirty[i].correct}

ClaimTally(k) == Cardinality({i \in ClaimErrors : ClaimCounted(k, ClaimLastThirty[i])})

\* C20: with at least 10 records and at least 3 incorrect ones among the
\* last 30, check_error_patterns returns the first category, in the order of
\* ClaimCategories, whose tally over the incorrect records is the highest if
\* that tally is at least 20% of their number, and none otherwise; the
\* tallies are those of the spec's definitions
C20_TalliesAsSpecified ==
    (/\ call.fn = "check_error_patterns"
     /\ Len(performance_data) >= 10
     /\ Cardinality(ClaimErrors) >= 3)
        => \/ /\ call.result = "none"
              /\ \A k \in 1..6 : 5 * ClaimTally(k) < Cardinality(ClaimErrors)
           \/ \E k \in 1..6 :
                 /\ call.result = ClaimCategories[k]
                 /\ 5 * ClaimTally(k) >= Cardinality(ClaimErrors)
                 /\ \A j \in 1..6 : ClaimTally(j) <= ClaimTally(k)
                 /\ \A j \in 1..(k - 1) : ClaimTally(j) < ClaimTally(k)

(***************************************************************************)
(* Claims about evaluate_problem_difficulty (SpecScore).                   *)
(***************************************************************************)
ClaimScored == call.fn = "evaluate_problem_difficulty"

\* the records of the history that match the scored problem exactly
ClaimExact(wanted) ==
    {i \in 1..Len(performance_data) :
        /\ performance_data[i].num1 = call.num1
        /\ performance_data[i].operation = call.symbol
        /\ performance_data[i].num2 = call.num2
        /\ performance_data[i].correct = wanted}

\* C12: the score is strictly greater than 0, for every candidate, every
\* normalized typing time in [0, 1] and every history.
C12_ScorePositive ==
    ClaimScored => call.result.n > 0 /\ call.result.d > 0

\* four correct exact records and no incorrect one, where 1 - 0.3 * 4 is
\* below 0: the score is positive and below 1/2
C12_Witness ==
    /\ ClaimScored
    /\ Cardinality(ClaimExact(TRUE)) = 4
    /\ ClaimExact(FALSE) = {}
    /\ call.result.n > 0
    /\ 2 * call.result.n < call.result.d

\* the history with one more exact record, logged at time ts, put first
ClaimOneMore(wanted, ts) ==
    <<attempt_entry([num1 |-> call.num1, operation |-> call.symbol, num2 |-> call.num2],
                    wanted, 1, 1, ts)>> \o performance_data

\* the score of the same call on another history
ClaimScoreOn(data) ==
    evaluate_problem_difficulty(data, call.num1, call.symbol, call.num2,
                                call.normalized_typing_time, now)

\* the other factors are the same on both histories: the similar records,
\* the repeated-answer factor and the spaced repetition factor
ClaimSameFactors(data) ==
    LET mine == get_specific_problem_history(performance_data, call.num1,
                                             call.symbol, call.num2)
        other == get_specific_problem_history(data, call.num1, call.symbol, call.num2)
    IN /\ mine.similar = other.similar
       /\ repeat_factor(data, call.num1, call.symbol, call.num2)
             = repeat_factor(performance_data, call.num1, call.symbol, call.num2)
       /\ due_multiplier(other.exact \o other.similar, now)
             = due_multiplier(mine.exact \o mine.similar, now)

\* a <= b and a < b for positive rationals, common divisors taken out first
ClaimLe(a, b) ==
    LET g == GCD(a.d, b.d)
        h == GCD(a.n, b.n)
    IN (a.n \div h) * (b.d \div g) <= (b.n \div h) * (a.d \div g)

ClaimLt(a, b) == ClaimLe(a, b) /\ a # b

\* C13: with the other factors the same, one more correct exact record does
\* not raise the score and one more incorrect exact record does not lower it.
C13_ScoreMonotone ==
    ClaimScored =>
        \A ts \in ScoreStamps :
            /\ ClaimSameFactors(ClaimOneMore(TRUE, ts))
                  => ClaimLe(ClaimScoreOn(ClaimOneMore(TRUE, ts)), call.result)
            /\ ClaimSameFactors(ClaimOneMore(FALSE, ts))
                  => ClaimLe(call.result, ClaimScoreOn(ClaimOneMore(FALSE, ts)))

\* a score that one more correct record strictly lowers and one more
\* incorrect record strictly raises, the other factors being the same
C13_Witness ==
    /\ ClaimScored
    /\ ClaimExact(TRUE) # {} /\ ClaimExact(FALSE) # {}
    /\ \E ts \in ScoreStamps :
          /\ ClaimSameFactors(ClaimOneMore(TRUE, ts))
          /\ ClaimLt(ClaimScoreOn(ClaimOneMore(TRUE, ts)), call.result)
    /\ \E ts \in ScoreStamps :
          /\ ClaimSameFactors(ClaimOneMore(FALSE, ts))
          /\ ClaimLt(call.result, ClaimScoreOn(ClaimOneMore(FALSE, ts)))

(***************************************************************************)
(* Claims about the session, key by key.                                   *)
(***************************************************************************)
\* old is new without its last Len(new) - Len(old) records
ClaimPrefix(old, new) == Len(old) <= Len(new) /\ SubSeq(new, 1, Len(old)) = old

\* the step ends a round: the last character was typed, or a wrong key
ClaimRoundEnds == pc = "input" /\ pc' \in {"round", "cooldown"}

\* the step is the quit key in a round
ClaimQuit == pc = "input" /\ call'.fn = "inkey" /\ call'.inp = "q"

\* C14: a step that ends a round (last character typed, or first wrong key)
\* appends exactly one record, that of the round's problem, marked correct
\* exactly when the answer was typed; the quit key appends none; no other
\* step changes the history, and no step changes or removes a record
C14_OneRecordPerRound ==
    [][/\ ClaimPrefix(performance_data, performance_data')
       /\ ClaimRoundEnds =>
              /\ Len(performance_data') = Len(performance_data) + 1
              /\ LET e == performance_data'[Len(performance_data')]
                 IN /\ <<e.num1, e.operation, e.num2>> =
                           <<problem.num1, problem.operation, problem.num2>>
                    /\ e.correct = (pc' = "round")
       /\ ClaimQuit => performance_data' = performance_data
       /\ ~ClaimRoundEnds => performance_data' = performance_data]_vars

\* a two-character answer has been typed after a loaded record
C14_Witness ==
    /\ pc = "round"
    /\ call.fn = "inkey"
    /\ user_answer = 2
    /\ Len(performance_data) = 2
    /\ performance_data[2].correct

(***************************************************************************)
(* Claims about start-up.                                                  *)
(***************************************************************************)
\* the file is missing, or its text is not a JSON document
ClaimUnusable(file) == ~file.exists \/ ~file.valid

\* C15: once main has loaded the two files the program is in the menu, not
\* stopped by an exception; a missing or malformed performance.json has given
\* the empty history and a missing or malformed config.json the default
\* configuration
C15_LoadNeverFails ==
    call.fn = "main" =>
        /\ pc # "raised"
        /\ ClaimUnusable(performance_file) => performance_data = <<>>
        /\ ClaimUnusable(config_file) =>
               config = [operations |-> [op \in Ops |-> TRUE],
                         difficulties |-> [op \in Ops |-> 1],
                         allow_negative |-> TRUE]

(***************************************************************************)
(* Claims about the selection among candidates.                            *)
(***************************************************************************)
RECURSIVE ClaimPower(_, _)
ClaimPower(b, e) == IF e = 0 THEN 1 ELSE b * ClaimPower(b, e - 1)

\* the largest operand of a plain draw: 5 * 1.1^(d-1) without its fraction
ClaimPlainMax(d) == (5 * ClaimPower(11, d - 1)) \div ClaimPower(10, d - 1)

\* r is a problem generate_problem can draw for op at difficulty d
ClaimPlainDraw(r, op, d, allow_negative) ==
    LET m == ClaimPlainMax(d)
    IN /\ r.mode = "plain"
       /\ r.num1 >= 1 /\ r.num2 >= 1
       /\ \/ op = "addition" /\ r.operation = "+" /\ r.num1 <= m /\ r.num2 <= m
                /\ r.answer = r.num1 + r.num2
          \/ op = "subtraction" /\ r.operation = "-" /\ r.num1 <= m
                /\ r.num2 <= (IF allow_negative THEN m ELSE r.num1)
                /\ r.answer = r.num1 - r.num2
          \/ op = "multiplication" /\ r.operation = "*" /\ r.num1 <= m /\ r.num2 <= m
                /\ r.answer = r.num1 * r.num2
          \/ op = "division" /\ r.operation = "/" /\ r.num2 <= m /\ r.answer >= 1
                /\ r.answer <= m /\ r.num1 = r.num2 * r.answer

ClaimSelected == call.fn = "smart_generate_problem" /\ call.result.kind = "append"

\* C16: when smart_generate_problem returns, its candidates list holds at
\* most 25 entries; with fewer than 5 the return is a plain draw for the
\* requested operation and difficulty, with 5 or more it is a candidate
C16_FallbackUnderFive ==
    ClaimSelected =>
        /\ call.candidates <= 25
        /\ call.candidates < 5 =>
               ClaimPlainDraw(call.result, call.operation, call.difficulty,
                              call.allow_negative)
        /\ call.candidates >= 5 => call.result.mode # "plain"

\* four candidates survived and the plain draw was returned
C16_Witness ==
    /\ ClaimSelected
    /\ call.candidates = 4
    /\ call.result.mode = "plain"

\* C18: a candidate of the targeted loop satisfies the condition of the
\* pattern it targets: for carrying an addition whose ones digits sum to 10
\* or more, for borrowing a subtraction whose first ones digit is below the
\* second
C18_TargetedSatisfiesTrigger ==
    (ClaimSelected /\ call.result.mode = "targeted") =>
        LET r == call.result
            pattern == check_error_patterns(performance_data)
        IN /\ pattern = "carrying" =>
                  r.operation = "+" /\ (r.num1 % 10) + (r.num2 % 10) >= 10
           /\ pattern = "borrowing" =>
                  r.operation = "-" /\ (r.num1 % 10) < (r.num2 % 10)

(***************************************************************************)
(* Claims about the operand bound.                                         *)
(***************************************************************************)
\* 5 * 1.1^(d-1) rounded to the nearest integer
ClaimRoundedMax(d) ==
    (10 * ClaimPower(11, d - 1) + ClaimPower(10, d - 1)) \div (2 * ClaimPower(10, d - 1))

ClaimBounded == call.fn = "adjusted_max_val"

\* C19, as amended: the operand bound at difficulty d is 5 * 1.1^(d-1) with
\* its fraction dropped, raised to at least 10 in the smart path
C19_MaxValTruncated ==
    ClaimBounded =>
        call.result = IF call.smart /\ ClaimPlainMax(call.difficulty) < 10 THEN 10
                      ELSE ClaimPlainMax(call.difficulty)

\* C19 witness: a difficulty at which dropping the fraction and rounding to
\* the nearest differ, in generate_problem
C19_Witness ==
    /\ ClaimBounded
    /\ ~call.smart
    /\ call.result = ClaimPlainMax(call.difficulty)
    /\ call.result < ClaimRoundedMax(call.difficulty)

\* C19, as stated: the operand bound at difficulty d is 5 * 1.1^(d-1) rounded
\* to the nearest integer, raised to at least 10 in the smart path
C19_MaxValRounded ==
    ClaimBounded =>
        call.result = IF call.smart /\ ClaimRoundedMax(call.difficulty) < 10 THEN 10
                      ELSE ClaimRoundedMax(call.difficulty)

(***************************************************************************)
(* Claims about the repeated-answer factor (SpecScore).                    *)
(***************************************************************************)
\* the correct answer as an integer
ClaimAnswer(num1, symbol, num2) ==
    CASE symbol = "+" -> num1 + num2
      [] symbol = "-" -> num1 - num2
      [] symbol = "*" -> num1 * num2
      [] symbol = "/" -> num1 \div num2

\* one of the last 5 records has the scored problem's answer
ClaimRepeated ==
    \E i \in 1..Len(performance_data) :
        /\ i > Len(performance_data) - 5
        /\ ClaimAnswer(performance_data[i].num1, performance_data[i].operation,
                       performance_data[i].num2)
              = ClaimAnswer(call.num1, call.symbol, call.num2)

\* C21: the score carries the factor 0.7 exactly when the scored problem's
\* answer, as a decimal integer, is the answer of one of the last 5 records,
\* whatever their operators: the score is the score without that factor
\* times 0.7 in that case and times 1 otherwise
C21_RepeatDiscount ==
    ClaimScored =>
        LET scored == evaluate_problem_difficulty(performance_data, call.num1,
                          call.symbol, call.num2, call.normalized_typing_time, now)
            applied == repeat_factor(performance_data, call.num1, call.symbol,
                                     call.num2)
        IN call.result = RatMul(RatDiv(scored, applied),
                                IF ClaimRepeated THEN Rat(7, 10) ELSE Rat(1, 1))

(***************************************************************************)
(* Claims about the keys of a round (SpecSession).                         *)
(***************************************************************************)
\* the characters of the answer still to be typed before this key
ClaimLeft == DecLen(correct_answer) - user_answer

\* C22: the quit key leaves the game loop at the keystroke where it is
\* pressed, whatever part of the answer is still to be typed: the next state
\* is the menu, no character is added to the answer, nothing is recorded and
\* the history is written to storage
C22_QuitLeavesAtOnce ==
    [][ClaimQuit =>
          /\ pc' = "menu"
          /\ user_answer' = user_answer
          /\ performance_data' = performance_data
          /\ performance_file'.exists
          /\ performance_file'.data = performance_data]_vars

\* the menu was reached by the quit key with one character of a longer
\* answer typed
C22_Witness ==
    /\ pc = "menu"
    /\ call.fn = "inkey"
    /\ call.inp = "q"
    /\ user_answer >= 1
    /\ ClaimLeft >= 1

\* C22, as stated: the quit key pressed before the last character of the
\* answer does not end the input loop at that keystroke; the game loop is
\* left only once the input loop has completed
C22_QuitAfterInputLoop ==
    [][ClaimQuit /\ ClaimLeft > 1 => pc' = "input"]_vars

C24_ConfigPersisted ==
    Logged =>
        /\ config_file.exists
        /\ config_file.valid
        /\ config_file.data = config

\* C24 witness: an incorrect attempt lowered the difficulty and the file
\* holds the lowered value
C24_Witness ==
    /\ Logged
    /\ ~call.correct
    /\ config.difficulties[call.operation] = call.before - 1
    /\ config_file.data.difficulties[call.operation] = call.before - 1

\* C27: after log_attempt with an incorrect attempt the attempted
\* operation's difficulty is at most what it was before the call
C27_IncorrectNeverRaises ==
    (Logged /\ ~call.correct) => config.difficulties[call.operation] <= call.before

\* the name of the operation of a record
ClaimAttempted(e) ==
    CASE e.operation = "+" -> "addition"
      [] e.operation = "-" -> "subtraction"
      [] e.operation = "*" -> "multiplication"
      [] e.operation = "/" -> "division"

\* C28: a step that appends a record to the history (log_attempt) changes
\* the difficulty of the appended record's operation by at most 1 and leaves
\* the other operations' difficulties, the operations flags and
\* allow_negative as they were
C28_OnlyAttemptedDifficulty ==
    [][Len(performance_data') = Len(performance_data) + 1 =>
          LET op == ClaimAttempted(performance_data'[Len(performance_data')])
              change == config'.difficulties[op] - config.difficulties[op]
          IN /\ change \in {-1, 0, 1}
             /\ \A o \in Ops \ {op} :
                    config'.difficulties[o] = config.difficulties[o]
             /\ config'.operations = config.operations
             /\ config'.allow_negative = config.allow_negative]_vars

\* C28 witness: an attempt raised its operation's difficulty while another
\* operation stands at a difficulty set by hand
C28_Witness ==
    /\ Logged
    /\ config.difficulties[call.operation] = call.before + 1
    /\ \E o \in Ops \ {call.operation} : config.difficulties[o] > 1

(***************************************************************************)
(* Claims about what smart_generate_problem returns (SpecSelect).          *)
(***************************************************************************)
\* C25: the problem smart_generate_problem returns carries the symbol of the
\* operation it was asked for, whatever the history, targeted candidates
\* included
C25_RequestedOperator ==
    ClaimSelected => ClaimAttempted(call.result) = call.operation

\* C26: smart_generate_problem returns a problem and never raises, for every
\* operation, difficulty, allow_negative and history
C26_NeverRaises ==
    call.fn = "smart_generate_problem" => call.result.kind # "raise"

\* C29: the problem smart_generate_problem returns is not trivial at the
\* configured difficulty of its operation
C29_NeverTrivial ==
    ClaimSelected =>
        ~ClaimTrivial(call.result.num1, call.result.operation, call.result.num2,
                      config.difficulties[ClaimAttempted(call.result)])

====
